---- MODULE Spec2Model ----
(***************************************************************************)
(* Model of the gbchess move-generation and board-mutation kernel (Rust    *)
(* port): squares, pieces, the moves table, slider targets, the            *)
(* pseudo-legal generator with its legality filter, make/unmake on boards  *)
(* and positions, the per-turn state update and perft.                     *)
(*                                                                         *)
(* Squares are 0..63 in rank-major order, pieces are their enum indices    *)
(* (P=0 .. K=5, Empty=6, p=7 .. k=12), move kinds are their enum values.   *)
(* A SquareSet is a set of squares; iteration over it is ascending.        *)
(***************************************************************************)
EXTENDS Integers, Sequences, FiniteSets, TLC

VARIABLES
    board,          \* Position.board of the searched position
    turn,           \* Position.turn of the searched position
    move_list,      \* all_legal_moves_and_captures of the searched position
    undo,           \* the UndoPosition records of the outstanding makes
    history,        \* for each outstanding make: the position before it and the move
    root,           \* the position the search started from
    perft_result,   \* the perft calls made: position, depth and returned count
    once_state,     \* per OnceLock static: "incomplete", "running" or "complete"
    once_value,     \* per OnceLock static: the slot, <<>> while nothing is stored
    installs,       \* per OnceLock static: how often the slot has been written
    thread,         \* per thread: position in get_or_init, the cell it called,
                    \* the table its initializer is building, the table it last got
                    \* back, and the calls it has made
    elo             \* two ELO values 'self' and 'opponent', the calls made on them,
                    \* the opponent before the last call, and the sum of the two
                    \* ratings when the current run of update_both calls began

search_vars == <<board, turn, move_list, undo, history, root, perft_result>>
once_vars == <<once_state, once_value, installs, thread>>
vars == <<board, turn, move_list, undo, history, root, perft_result,
          once_state, once_value, installs, thread, elo>>

----------------------------------------------------------------------------
(* Bounds of the model *)

\* deepest stack of outstanding make_move_position calls
MaxDepth == 2
\* deepest perft recursion
MaxPerftDepth == 1
\* table lookups (slider targets, attackers) are compared on every square
\* of the boards at most this many moves from a root
MaxLookupDepth == 1
\* threads calling magic::targets and hash_vectors
NumThreads == 2
\* calls of one thread
MaxCalls == 2
\* entries of a lazily built table
TableSize == 2
\* calls of update_both and update_one on the two players
MaxGames == 3

----------------------------------------------------------------------------
(* fen/src/types.rs: Square, Color, Piece *)

NUM_FILES == 8
NUM_RANKS == 8
NUM_SQUARES == NUM_FILES * NUM_RANKS

Squares == 0 .. (NUM_SQUARES - 1)

make_square(file, rank) == rank * NUM_FILES + file
rank_of(sq) == sq \div NUM_FILES
file_of(sq) == sq % NUM_RANKS

A1 == 0
B1 == 1
C1 == 2
D1 == 3
E1 == 4
F1 == 5
G1 == 6
H1 == 7
A8 == 56
B8 == 57
C8 == 58
D8 == 59
E8 == 60
F8 == 61
G8 == 62
H8 == 63

White == "White"
Black == "Black"
Colors == {White, Black}
other_color(c) == IF c = White THEN Black ELSE White

WP == 0
WN == 1
WB == 2
WR == 3
WQ == 4
WK == 5
Empty == 6
BP == 7
BN == 8
BB == 9
BR == 10
BQ == 11
BK == 12

Pieces == 0 .. 12

piece_color(piece) == IF piece < Empty THEN White ELSE Black

Pawn == "Pawn"
Knight == "Knight"
Bishop == "Bishop"
Rook == "Rook"
Queen == "Queen"
King == "King"
EmptyType == "Empty"

piece_type(piece) ==
    CASE piece \in {WP, BP} -> Pawn
      [] piece \in {WN, BN} -> Knight
      [] piece \in {WB, BB} -> Bishop
      [] piece \in {WR, BR} -> Rook
      [] piece \in {WQ, BQ} -> Queen
      [] piece \in {WK, BK} -> King
      [] OTHER -> EmptyType

from_type_and_color(ptype, color) ==
    CASE ptype = Pawn -> IF color = White THEN WP ELSE BP
      [] ptype = Knight -> IF color = White THEN WN ELSE BN
      [] ptype = Bishop -> IF color = White THEN WB ELSE BB
      [] ptype = Rook -> IF color = White THEN WR ELSE BR
      [] ptype = Queen -> IF color = White THEN WQ ELSE BQ
      [] ptype = King -> IF color = White THEN WK ELSE BK
      [] OTHER -> Empty

\* Piece::from_index: the piece with that enum index
from_index(index) == index

----------------------------------------------------------------------------
(* fen/src/board.rs: Board, CastlingMask, Turn *)

EmptyBoard == [s \in Squares |-> Empty]

\* the four castling rights; a CastlingMask is a subset of them
CastlingRights == {"K", "Q", "k", "q"}

NO_EN_PASSANT_TARGET == A1

\* width of the halfmove counter (u8) and of the fullmove counter (u16)
HalfmoveModulus == 256
FullmoveModulus == 65536

Turn_new(active_color, castling, en_passant, halfmove, fullmove) ==
    [active_color |-> active_color, castling |-> castling,
     en_passant |-> en_passant, halfmove |-> halfmove, fullmove |-> fullmove]

\* Turn::tick: advance the clocks and switch the side to move.  The two
\* '+= 1' are on u8 and u16: at the top of the range a build without
\* overflow checks wraps, a build with them panics and the run ends there
\* (no further step); the wrapped value is the only successor either way
tick(t) ==
    LET next == other_color(t.active_color)
    IN [t EXCEPT !.halfmove = (t.halfmove + 1) % HalfmoveModulus,
                 !.active_color = next,
                 !.fullmove = IF next = White
                              THEN (t.fullmove + 1) % FullmoveModulus
                              ELSE t.fullmove]

----------------------------------------------------------------------------
(* square_set/src/square_set.rs *)

\* the squares of a set in ascending order (SquareSetIter)
RECURSIVE iter(_)
iter(set) ==
    IF set = {} THEN <<>>
    ELSE LET lowest == CHOOSE x \in set : \A y \in set : x <= y
         IN <<lowest>> \o iter(set \ {lowest})

rank_set(rank) == {s \in Squares : rank_of(s) = rank}
file_set(file) == {s \in Squares : file_of(s) = file}

sign(n) == IF n > 0 THEN 1 ELSE IF n < 0 THEN -1 ELSE 0
abs(n) == IF n < 0 THEN -n ELSE n

RECURSIVE path_walk(_, _, _, _, _, _)
path_walk(current_rank, current_file, to_rank, to_file, step_rank, step_file) ==
    IF current_rank = to_rank /\ current_file = to_file THEN {}
    ELSE (IF current_rank >= 0 /\ current_rank < 8 /\ current_file >= 0 /\ current_file < 8
          THEN {make_square(current_file, current_rank)} ELSE {})
         \cup path_walk(current_rank + step_rank, current_file + step_file,
                        to_rank, to_file, step_rank, step_file)

\* make_path walking up to and including the destination
make_path_to_destination(from, to) ==
    LET rank_diff == rank_of(to) - rank_of(from)
        file_diff == file_of(to) - file_of(from)
    IN IF rank_diff # 0 /\ file_diff # 0 /\ abs(rank_diff) # abs(file_diff) THEN {}
       ELSE path_walk(rank_of(from) + sign(rank_diff), file_of(from) + sign(file_diff),
                      rank_of(to), file_of(to), sign(rank_diff), sign(file_diff))
            \cup {to}

\* SquareSet::make_path
make_path(from, to) ==
    LET rank_diff == rank_of(to) - rank_of(from)
        file_diff == file_of(to) - file_of(from)
    IN IF rank_diff # 0 /\ file_diff # 0 /\ abs(rank_diff) # abs(file_diff) THEN {}
       ELSE path_walk(rank_of(from) + sign(rank_diff), file_of(from) + sign(file_diff),
                      rank_of(to), file_of(to), sign(rank_diff), sign(file_diff))

find_piece(b, piece) == {s \in Squares : b[s] = piece}

----------------------------------------------------------------------------
(* magic/src/magic.rs: slider blocker masks, ray walks and the table lookup *)

\* a function with every value computed once
Tabulate(f) == f @@ <<>>

on_board(file, rank) == file >= 0 /\ file < 8 /\ rank >= 0 /\ rank < 8

\* the interior squares of one ray: steps continue while the guard of the
\* source loop holds for the current square
RECURSIVE blocker_ray(_, _, _, _)
blocker_ray(file, rank, df, dr) ==
    IF (dr > 0 => rank < 6) /\ (dr < 0 => rank > 1)
       /\ (df > 0 => file < 6) /\ (df < 0 => file > 1)
    THEN {make_square(file + df, rank + dr)} \cup blocker_ray(file + df, rank + dr, df, dr)
    ELSE {}

\* rook_blockers walking the two rays along the rank only
rook_blockers_rank_only(square) ==
    LET f == file_of(square)
        r == rank_of(square)
    IN blocker_ray(f, r, 1, 0) \cup blocker_ray(f, r, -1, 0)

rook_blockers(square) ==
    LET f == file_of(square)
        r == rank_of(square)
    IN blocker_ray(f, r, 0, 1) \cup blocker_ray(f, r, 0, -1)
       \cup blocker_ray(f, r, 1, 0) \cup blocker_ray(f, r, -1, 0)

bishop_blockers(square) ==
    LET f == file_of(square)
        r == rank_of(square)
    IN blocker_ray(f, r, 1, 1) \cup blocker_ray(f, r, -1, 1)
       \cup blocker_ray(f, r, 1, -1) \cup blocker_ray(f, r, -1, -1)

compute_slider_blockers(square, is_bishop) ==
    IF is_bishop THEN bishop_blockers(square) ELSE rook_blockers(square)

\* one ray of the classical walk: every square up to and including the
\* first blocker
RECURSIVE target_ray(_, _, _, _, _)
target_ray(file, rank, df, dr, blockers) ==
    IF on_board(file + df, rank + dr)
    THEN LET target == make_square(file + df, rank + dr)
         IN {target} \cup (IF target \in blockers THEN {}
                           ELSE target_ray(file + df, rank + dr, df, dr, blockers))
    ELSE {}

compute_rook_targets(square, blockers) ==
    LET f == file_of(square)
        r == rank_of(square)
    IN target_ray(f, r, 0, 1, blockers) \cup target_ray(f, r, 0, -1, blockers)
       \cup target_ray(f, r, 1, 0, blockers) \cup target_ray(f, r, -1, 0, blockers)

compute_bishop_targets(square, blockers) ==
    LET f == file_of(square)
        r == rank_of(square)
    IN target_ray(f, r, 1, 1, blockers) \cup target_ray(f, r, -1, 1, blockers)
       \cup target_ray(f, r, 1, -1, blockers) \cup target_ray(f, r, -1, -1, blockers)

compute_slider_targets(square, is_bishop, blockers) ==
    IF is_bishop THEN compute_bishop_targets(square, blockers)
    ELSE compute_rook_targets(square, blockers)

\* Magic.mask of every square, for rooks and for bishops (Magic::new)
magic_mask ==
    [is_bishop \in BOOLEAN |->
        Tabulate([s \in Squares |-> compute_slider_blockers(s, is_bishop)])]

\* magic::targets: the table entry keyed on the occupancy masked to the
\* blocker squares; Magic::new filled that entry with the ray walk for
\* exactly these blockers
targets(square, is_bishop, occupancy) ==
    compute_slider_targets(square, is_bishop, occupancy \cap magic_mask[is_bishop][square])

----------------------------------------------------------------------------
(* moves_table/src/lib.rs: MovesTable *)

white_pawn_moves(from) ==
    LET file == file_of(from)
        rank == rank_of(from)
    IN IF rank < 7
       THEN {make_square(file, rank + 1)}
            \cup (IF rank = 1 THEN {make_square(file, rank + 2)} ELSE {})
       ELSE {}

black_pawn_moves(from) ==
    LET file == file_of(from)
        rank == rank_of(from)
    IN IF rank > 0
       THEN {make_square(file, rank - 1)}
            \cup (IF rank = 6 THEN {make_square(file, rank - 2)} ELSE {})
       ELSE {}

white_pawn_attacks(from) ==
    LET file == file_of(from)
        rank == rank_of(from)
    IN IF rank < 7
       THEN (IF file > 0 THEN {make_square(file - 1, rank + 1)} ELSE {})
            \cup (IF file < 7 THEN {make_square(file + 1, rank + 1)} ELSE {})
       ELSE {}

black_pawn_attacks(from) ==
    LET file == file_of(from)
        rank == rank_of(from)
    IN IF rank > 0
       THEN (IF file > 0 THEN {make_square(file - 1, rank - 1)} ELSE {})
            \cup (IF file < 7 THEN {make_square(file + 1, rank - 1)} ELSE {})
       ELSE {}

knight_deltas ==
    {<<-2, -1>>, <<-2, 1>>, <<-1, -2>>, <<-1, 2>>, <<1, -2>>, <<1, 2>>, <<2, -1>>, <<2, 1>>}

king_deltas ==
    {<<-1, -1>>, <<-1, 0>>, <<-1, 1>>, <<0, -1>>, <<0, 1>>, <<1, -1>>, <<1, 0>>, <<1, 1>>}

leaper_moves(from, deltas) ==
    {make_square(file_of(from) + d[1], rank_of(from) + d[2]) :
        d \in {e \in deltas : on_board(file_of(from) + e[1], rank_of(from) + e[2])}}

knight_moves(from) == leaper_moves(from, knight_deltas)

king_moves(from) == leaper_moves(from, king_deltas)

rook_moves(from) ==
    {make_square(f, rank_of(from)) : f \in (0 .. 7) \ {file_of(from)}}
    \cup {make_square(file_of(from), r) : r \in (0 .. 7) \ {rank_of(from)}}

bishop_moves(from) ==
    {make_square(file_of(from) + d[1] * i, rank_of(from) + d[2] * i) :
        <<d, i>> \in {x \in {<<1, 1>>, <<1, -1>>, <<-1, 1>>, <<-1, -1>>} \X (1 .. 7) :
                        on_board(file_of(from) + x[1][1] * x[2],
                                 rank_of(from) + x[1][2] * x[2])}}

queen_moves(from) == rook_moves(from) \cup bishop_moves(from)

compute_possible_moves(piece, from) ==
    CASE piece = WP -> white_pawn_moves(from)
      [] piece = BP -> black_pawn_moves(from)
      [] piece \in {WN, BN} -> knight_moves(from)
      [] piece \in {WB, BB} -> bishop_moves(from)
      [] piece \in {WR, BR} -> rook_moves(from)
      [] piece \in {WQ, BQ} -> queen_moves(from)
      [] piece \in {WK, BK} -> king_moves(from)
      [] OTHER -> {}

compute_possible_captures(piece, from) ==
    CASE piece = WP -> white_pawn_attacks(from)
      [] piece = BP -> black_pawn_attacks(from)
      [] piece \in {WN, BN} -> knight_moves(from)
      [] piece \in {WB, BB} -> bishop_moves(from)
      [] piece \in {WR, BR} -> rook_moves(from)
      [] piece \in {WQ, BQ} -> queen_moves(from)
      [] piece \in {WK, BK} -> king_moves(from)
      [] OTHER -> {}

\* MovesTable.moves and MovesTable.captures ([piece][square])
moves_table ==
    Tabulate([piece \in Pieces |->
        Tabulate([s \in Squares |-> compute_possible_moves(piece, s)])])

captures_table ==
    Tabulate([piece \in Pieces |->
        Tabulate([s \in Squares |-> compute_possible_captures(piece, s)])])

possible_moves(piece, square) == moves_table[piece][square]

possible_captures(piece, square) == captures_table[piece][square]

\* initialize_attackers gathering the targets of the queens only
initialize_attackers_queen_only(captures) ==
    [to \in Squares |-> {from \in Squares : to \in captures[WQ][from] \cup captures[BQ][from]}]

\* MovesTable::initialize_attackers: for every origin in ascending order,
\* the union of the capture patterns of the 13 piece indices from it, and
\* the origin added to the attackers of each square of that union
initialize_attackers(captures) ==
    LET all_targets(from) == UNION {captures[piece][from] : piece \in Pieces}
        RECURSIVE distribute(_, _)
        distribute(from_idx, attackers_so_far) ==
            IF from_idx = NUM_SQUARES THEN attackers_so_far
            ELSE distribute(from_idx + 1,
                            [to \in Squares |->
                                IF to \in all_targets(from_idx)
                                THEN attackers_so_far[to] \cup {from_idx}
                                ELSE attackers_so_far[to]])
    IN distribute(0, [to \in Squares |-> {}])

\* MovesTable.attackers ([square])
attackers_table == Tabulate(initialize_attackers(captures_table))

attackers(square) == attackers_table[square]

\* MovesTable.paths ([from][to])
paths_table ==
    Tabulate([from \in Squares |-> Tabulate([to \in Squares |-> make_path(from, to)])])

path(from, to) == paths_table[from][to]

\* moves_table::clear_path
clear_path(occupancy, from, to) == (occupancy \cap path(from, to)) = {}

\* Occupancy::from_board
Occupancy_from_board(b, active_color) ==
    [ours |-> {s \in Squares : b[s] # Empty /\ piece_color(b[s]) = active_color},
     theirs |-> {s \in Squares : b[s] # Empty /\ piece_color(b[s]) # active_color}]

Occupancy_all(occupancy) == occupancy.theirs \cup occupancy.ours

----------------------------------------------------------------------------
(* moves/src/lib.rs: MoveKind, Move, BoardChange, UndoPosition *)

QuietMove == 0
DoublePush == 1
OO == 2
OOO == 3
Capture == 4
EnPassant == 5
KnightPromotion == 8
BishopPromotion == 9
RookPromotion == 10
QueenPromotion == 11
KnightPromotionCapture == 12
BishopPromotionCapture == 13
RookPromotionCapture == 14
QueenPromotionCapture == 15

MoveKinds == (0 .. 5) \cup (8 .. 15)

CAPTURE_MASK == 4
PROMOTION_MASK == 8

\* bit tests on the 4-bit kind
is_capture(kind) == (kind \div CAPTURE_MASK) % 2 = 1
is_promotion(kind) == (kind \div PROMOTION_MASK) % 2 = 1

\* the promotion piece a move names ('kind & 3' of a promotion kind, as
\* Display for Move prints it), "none" for every other kind
promotion_piece(mv) ==
    IF is_promotion(mv.kind)
    THEN <<Knight, Bishop, Rook, Queen>>[(mv.kind % 4) + 1]
    ELSE "none"

Move_new(from, to, kind) == [from |-> from, to |-> to, kind |-> kind]

FromTo(from, to) == [from |-> from, to |-> to]

FromTo_default == FromTo(A1, A1)

----------------------------------------------------------------------------
(* moves/src/moves.rs: prepare, make and unmake *)

\* compound_move treating an en passant capture as a capture on the
\* destination square
compound_move_captures_destination(mv) ==
    CASE mv.kind = OO ->
            [to |-> mv.to, promo |-> 0,
             second |-> IF mv.from = E1 THEN FromTo(H1, F1) ELSE FromTo(H8, F8)]
      [] mv.kind = OOO ->
            [to |-> mv.to, promo |-> 0,
             second |-> IF mv.from = E1 THEN FromTo(A1, D1) ELSE FromTo(A8, D8)]
      [] is_promotion(mv.kind) ->
            [to |-> mv.to, promo |-> (mv.kind % 4) + 1, second |-> FromTo(mv.to, mv.to)]
      [] OTHER ->
            [to |-> mv.to, promo |-> 0, second |-> FromTo_default]

\* compound_move: the destination of the first displacement, the promotion
\* offset and the second displacement of a move
compound_move(mv) ==
    CASE mv.kind = OO ->
            [to |-> mv.to, promo |-> 0,
             second |-> IF mv.from = E1 THEN FromTo(H1, F1) ELSE FromTo(H8, F8)]
      [] mv.kind = OOO ->
            [to |-> mv.to, promo |-> 0,
             second |-> IF mv.from = E1 THEN FromTo(A1, D1) ELSE FromTo(A8, D8)]
      [] mv.kind = EnPassant ->
            LET captured_square ==
                    IF rank_of(mv.to) > rank_of(mv.from)
                    THEN make_square(file_of(mv.to), rank_of(mv.to) - 1)
                    ELSE make_square(file_of(mv.to), rank_of(mv.to) + 1)
            IN [to |-> captured_square, promo |-> 0,
                second |-> FromTo(captured_square, mv.to)]
      [] is_promotion(mv.kind) ->
            [to |-> mv.to, promo |-> (mv.kind % 4) + 1, second |-> FromTo(mv.to, mv.to)]
      [] OTHER ->
            [to |-> mv.to, promo |-> 0, second |-> FromTo_default]

prepare_move(b, mv) ==
    LET change_of(compound) ==
            [captured |-> b[compound.to],
             promo |-> compound.promo,
             first |-> FromTo(mv.from, compound.to),
             second |-> compound.second]
    IN change_of(compound_move(mv))

\* make_move_board moving the second piece without the promotion offset
make_move_board_keeps_pawn(b, change) ==
    LET first == b[change.first.from]
        b1 == [b EXCEPT ![change.first.from] = Empty]
        b2 == [b1 EXCEPT ![change.first.to] = first]
        second == b2[change.second.from]
        b3 == [b2 EXCEPT ![change.second.from] = Empty]
    IN [b3 EXCEPT ![change.second.to] = second]

\* make_move_board: the board after the two displacements of the change
make_move_board(b, change) ==
    LET first == b[change.first.from]
        b1 == [b EXCEPT ![change.first.from] = Empty]
        b2 == [b1 EXCEPT ![change.first.to] = first]
        second == b2[change.second.from]
        b3 == [b2 EXCEPT ![change.second.from] = Empty]
        moved == IF change.promo > 0 THEN from_index(second + change.promo) ELSE second
    IN [b3 EXCEPT ![change.second.to] = moved]

\* make_move: the change it returns and the board it leaves
make_move(b, mv) ==
    LET apply(change) == [change |-> change, board |-> make_move_board(b, change)]
    IN apply(prepare_move(b, mv))

unmake_move_board(b, undo_change) ==
    LET taken == b[undo_change.second.to]
        b1 == [b EXCEPT ![undo_change.second.to] = Empty]
        ours == IF undo_change.promo > 0 THEN from_index(taken - undo_change.promo)
                ELSE taken
        b2 == [b1 EXCEPT ![undo_change.second.from] = ours]
        piece == b2[undo_change.first.to]
        b3 == [b2 EXCEPT ![undo_change.first.to] = undo_change.captured]
    IN [b3 EXCEPT ![undo_change.first.from] = piece]

\* a mask table without the two king squares
square_castling_mask_rooks_only(square) ==
    CASE square = H1 -> {"K"}
      [] square = A1 -> {"Q"}
      [] square = H8 -> {"k"}
      [] square = A8 -> {"q"}
      [] OTHER -> {}

\* the rights tied to one square of the mask table
square_castling_mask(square) ==
    CASE square = E1 -> {"K", "Q"}
      [] square = H1 -> {"K"}
      [] square = A1 -> {"Q"}
      [] square = E8 -> {"k", "q"}
      [] square = H8 -> {"k"}
      [] square = A8 -> {"q"}
      [] OTHER -> {}

\* castling_mask looking at the origin of the move only
castling_mask_origin_only(from, to) == square_castling_mask(from)

castling_mask(from, to) == square_castling_mask(from) \cup square_castling_mask(to)

MoveWithPieces(mv, piece, captured) == [mv |-> mv, piece |-> piece, captured |-> captured]

\* apply_move_turn without the initial clearing of the en-passant target
apply_move_turn_keep_target(t, mwp) ==
    LET pushed ==
            IF mwp.mv.kind = DoublePush
            THEN [t EXCEPT !.en_passant =
                    make_square(file_of(mwp.mv.from),
                                (rank_of(mwp.mv.from) + rank_of(mwp.mv.to)) \div 2)]
            ELSE t
        mask == castling_mask(mwp.mv.from, mwp.mv.to)
        castled == [pushed EXCEPT !.castling = pushed.castling \ mask]
        ticked == tick(castled)
    IN IF piece_type(mwp.piece) = Pawn \/ is_capture(mwp.mv.kind)
       THEN [ticked EXCEPT !.halfmove = 0]
       ELSE ticked

apply_move_turn(t, mwp) ==
    LET cleared == [t EXCEPT !.en_passant = NO_EN_PASSANT_TARGET]
        pushed ==
            IF mwp.mv.kind = DoublePush
            THEN [cleared EXCEPT !.en_passant =
                    make_square(file_of(mwp.mv.from),
                                (rank_of(mwp.mv.from) + rank_of(mwp.mv.to)) \div 2)]
            ELSE cleared
        mask == castling_mask(mwp.mv.from, mwp.mv.to)
        castled == [pushed EXCEPT !.castling = pushed.castling \ mask]
        ticked == tick(castled)
    IN IF piece_type(mwp.piece) = Pawn \/ is_capture(mwp.mv.kind)
       THEN [ticked EXCEPT !.halfmove = 0]
       ELSE ticked

\* make_move_position_with_change saving the turn in the undo record only
\* after apply_move_turn has replaced it
make_move_position_with_change_late_undo(pos, change, mv) ==
    LET ours == pos.board[change.first.from]
        after == make_move_board(pos.board, change)
        mwp == MoveWithPieces(mv, ours, change.captured)
        new_turn == apply_move_turn(pos.turn, mwp)
    IN [undo |-> [board |-> change, turn |-> new_turn],
        position |-> [board |-> after, turn |-> new_turn]]

\* make_move_position_with_change: the undo record it returns and the
\* position it leaves
make_move_position_with_change(pos, change, mv) ==
    LET ours == pos.board[change.first.from]
        after == make_move_board(pos.board, change)
        undo_record == [board |-> change, turn |-> pos.turn]
        mwp == MoveWithPieces(mv, ours, change.captured)
    IN [undo |-> undo_record,
        position |-> [board |-> after, turn |-> apply_move_turn(pos.turn, mwp)]]

make_move_position(pos, mv) ==
    make_move_position_with_change(pos, prepare_move(pos.board, mv), mv)

\* unmake_move_position restoring the board only
unmake_move_position_keep_turn(pos, undo_record) ==
    [board |-> unmake_move_board(pos.board, undo_record.board), turn |-> pos.turn]

unmake_move_position(pos, undo_record) ==
    [board |-> unmake_move_board(pos.board, undo_record.board), turn |-> undo_record.turn]

apply_move(pos, mv) ==
    LET applied(made) ==
            [board |-> made.board,
             turn |-> apply_move_turn(pos.turn,
                                      MoveWithPieces(mv, pos.board[mv.from],
                                                     made.change.captured))]
    IN applied(make_move(pos.board, mv))

----------------------------------------------------------------------------
(* moves_gen/src/moves_gen.rs: the pseudo-legal generator *)

\* is_attacked_square without the clear_path test
is_attacked_square_any_path(b, square, occupancy) ==
    \E from \in occupancy.theirs \cap attackers(square) :
        square \in possible_captures(b[from], from)

\* moves::is_attacked_square: the attackers-table implementation
is_attacked_square(b, square, occupancy) ==
    \E from \in occupancy.theirs \cap attackers(square) :
        /\ clear_path(Occupancy_all(occupancy), from, square)
        /\ square \in possible_captures(b[from], from)

\* the values of a set of <<key, value>> pairs in ascending key order: the
\* order in which the nested SquareSet iterations of a finder emit them
RECURSIVE in_key_order(_)
in_key_order(pairs) ==
    IF pairs = {} THEN <<>>
    ELSE LET lowest == CHOOSE x \in pairs : \A y \in pairs : x[1] <= y[1]
         IN <<lowest[2]>> \o in_key_order(pairs \ {lowest})

\* what a finder hands to its callback
Emit(piece, mv) == [piece |-> piece, mv |-> mv]

SLIDERS == {WB, BB, WR, BR, WQ, BQ}

is_attacked(b, square, occupancy) ==
    \E from \in occupancy.theirs :
        LET piece == b[from]
        IN /\ piece # Empty
           /\ IF piece \in SLIDERS
              THEN \/ /\ piece \in {WB, BB, WQ, BQ}
                      /\ square \in targets(from, TRUE, Occupancy_all(occupancy))
                   \/ /\ piece \in {WR, BR, WQ, BQ}
                      /\ square \in targets(from, FALSE, Occupancy_all(occupancy))
              ELSE square \in possible_captures(piece, from)
           /\ clear_path(Occupancy_all(occupancy), from, square)

pinned_pieces(b, occupancy, king_square) == {}

SearchState_new(b, t) ==
    LET active == t.active_color
        occupancy == Occupancy_from_board(b, active)
        kings == find_piece(b, from_type_and_color(King, active))
        king_square == CHOOSE k \in kings : \A o \in kings : k <= o
    IN [occupancy |-> occupancy,
        pawns |-> find_piece(b, from_type_and_color(Pawn, active)),
        turn |-> t,
        king_square |-> king_square,
        in_check |-> is_attacked(b, king_square, occupancy),
        pinned |-> pinned_pieces(b, occupancy, king_square)]

\* CastlingInfo::new
CastlingInfo_new(color) ==
    IF color = White
    THEN [rook |-> WR, king |-> WK, king_side_mask |-> "K", queen_side_mask |-> "Q",
          king_side |-> <<FromTo(E1, G1), FromTo(H1, F1)>>,
          queen_side |-> <<FromTo(E1, C1), FromTo(A1, D1)>>]
    ELSE [rook |-> BR, king |-> BK, king_side_mask |-> "k", queen_side_mask |-> "q",
          king_side |-> <<FromTo(E8, G8), FromTo(H8, F8)>>,
          queen_side |-> <<FromTo(E8, C8), FromTo(A8, D8)>>]

\* expand_promos emitting the queen kind four times
expand_promos_queen_only(piece, mv) ==
    [i \in 1 .. 4 |-> Emit(piece, Move_new(mv.from, mv.to, mv.kind))]

\* the four promotion kinds of one pawn move, from the queen kind downwards
expand_promos(piece, mv) ==
    [i \in 1 .. 4 |-> Emit(piece, Move_new(mv.from, mv.to, mv.kind - (i - 1)))]

\* the 64-bit shifts: bits moved past either end are dropped
shift_pawns_forward(pawns, white) ==
    IF white THEN {s + 8 : s \in {p \in pawns : p + 8 <= 63}}
    ELSE {s - 8 : s \in {p \in pawns : p - 8 >= 0}}

shift_square_backward(square, white) == IF white THEN square - 8 ELSE square + 8

find_pawn_pushes(state) ==
    LET white == state.turn.active_color = White
        double_push_rank == IF white THEN rank_set(2) ELSE rank_set(5)
        promo_rank == IF white THEN rank_set(7) ELSE rank_set(0)
        free == Squares \ Occupancy_all(state.occupancy)
        singles == shift_pawns_forward(state.pawns, white) \cap free
        doubles == (shift_pawns_forward(singles, white) \cap free) \cap double_push_rank
        piece == IF white THEN WP ELSE BP
    IN in_key_order({<<to, Emit(piece, Move_new(shift_square_backward(to, white), to,
                                                 QuietMove))>> :
                        to \in singles \ promo_rank})
       \o in_key_order({<<4 * to + i,
                          expand_promos(piece, Move_new(shift_square_backward(to, white), to,
                                                        QueenPromotion))[i + 1]>> :
                        <<to, i>> \in (singles \cap promo_rank) \X (0 .. 3)})
       \o in_key_order({<<to, Emit(piece,
                                   Move_new(shift_square_backward(
                                                shift_square_backward(to, white), white),
                                            to, DoublePush))>> :
                        to \in doubles})

\* (pawns & 0xfefe..fe) << 7 or >> 9, and (pawns & 0x7f7f..7f) << 9 or >> 7
shift_pawn_capture_left(pawns, white) ==
    IF white THEN {s + 7 : s \in {p \in pawns : file_of(p) # 0 /\ p + 7 <= 63}}
    ELSE {s - 9 : s \in {p \in pawns : file_of(p) # 0 /\ p - 9 >= 0}}

shift_pawn_capture_right(pawns, white) ==
    IF white THEN {s + 9 : s \in {p \in pawns : file_of(p) # 7 /\ p + 9 <= 63}}
    ELSE {s - 7 : s \in {p \in pawns : file_of(p) # 7 /\ p - 7 >= 0}}

capture_square_origin_left(to, white) == IF white THEN to - 7 ELSE to + 9

capture_square_origin_right(to, white) == IF white THEN to - 9 ELSE to + 7

find_pawn_captures(state) ==
    LET white == state.turn.active_color = White
        promo_rank == IF white THEN rank_set(7) ELSE rank_set(0)
        left_pawns == state.pawns \ file_set(0)
        right_pawns == state.pawns \ file_set(7)
        left == shift_pawn_capture_left(left_pawns, white) \cap state.occupancy.theirs
        right == shift_pawn_capture_right(right_pawns, white) \cap state.occupancy.theirs
        piece == IF white THEN WP ELSE BP
    IN in_key_order({<<to, Emit(piece, Move_new(capture_square_origin_left(to, white), to,
                                                 Capture))>> :
                        to \in left \ promo_rank})
       \o in_key_order({<<4 * to + i,
                          expand_promos(piece,
                                        Move_new(capture_square_origin_left(to, white), to,
                                                 QueenPromotionCapture))[i + 1]>> :
                        <<to, i>> \in (left \cap promo_rank) \X (0 .. 3)})
       \o in_key_order({<<to, Emit(piece, Move_new(capture_square_origin_right(to, white), to,
                                                    Capture))>> :
                        to \in right \ promo_rank})
       \o in_key_order({<<4 * to + i,
                          expand_promos(piece,
                                        Move_new(capture_square_origin_right(to, white), to,
                                                 QueenPromotionCapture))[i + 1]>> :
                        <<to, i>> \in (right \cap promo_rank) \X (0 .. 3)})

\* the squares a non-pawn piece on 'from' can reach along its pattern with
\* the given occupancy: the magic lookup for a free slider, the precomputed
\* pattern with a clear path otherwise
reachable(b, state, from, pattern) ==
    LET piece == b[from]
        all == Occupancy_all(state.occupancy)
    IN IF piece \in SLIDERS /\ from \notin state.pinned /\ ~state.in_check
       THEN (IF piece \in {WB, BB, WQ, BQ} THEN targets(from, TRUE, all) ELSE {})
            \cup (IF piece \in {WR, BR, WQ, BQ} THEN targets(from, FALSE, all) ELSE {})
       ELSE {to \in pattern : clear_path(all, from, to)}

find_non_pawn_moves(b, state) ==
    in_key_order({<<64 * x[1] + x[2], Emit(b[x[1]], Move_new(x[1], x[2], QuietMove))>> :
        x \in UNION {{<<from, to>> :
                        to \in reachable(b, state, from, possible_moves(b[from], from))
                               \ Occupancy_all(state.occupancy)} :
                     from \in state.occupancy.ours \ state.pawns}})

find_non_pawn_captures(b, state) ==
    in_key_order({<<64 * x[1] + x[2], Emit(b[x[1]], Move_new(x[1], x[2], Capture))>> :
        x \in UNION {{<<from, to>> :
                        to \in reachable(b, state, from, possible_captures(b[from], from))
                               \cap state.occupancy.theirs} :
                     from \in state.occupancy.ours \ state.pawns}})

find_moves(b, state) == find_pawn_pushes(state) \o find_non_pawn_moves(b, state)

find_captures(b, state) == find_pawn_captures(state) \o find_non_pawn_captures(b, state)

find_castles(state) ==
    IF state.in_check THEN <<>>
    ELSE LET color == state.turn.active_color
             info == CastlingInfo_new(color)
             castling == state.turn.castling
             all == Occupancy_all(state.occupancy)
             king_clear == {info.king_side[2].to, info.king_side[1].to}
             queen_clear == {info.queen_side[2].to, info.queen_side[1].to, B1}
         IN (IF info.king_side_mask \in castling /\ (all \cap king_clear) = {}
             THEN <<Emit(info.king,
                         Move_new(info.king_side[1].from, info.king_side[1].to, OO))>>
             ELSE <<>>)
            \o (IF info.queen_side_mask \in castling /\ (all \cap queen_clear) = {}
                THEN <<Emit(info.king,
                            Move_new(info.queen_side[1].from, info.queen_side[1].to, OOO))>>
                ELSE <<>>)

find_en_passant(b, t) ==
    IF t.en_passant = NO_EN_PASSANT_TARGET THEN <<>>
    ELSE LET active == t.active_color
             pawn == from_type_and_color(Pawn, active)
             target_file == file_of(t.en_passant)
             pawn_rank == IF active = White THEN 4 ELSE 3
         IN (IF target_file > 0 /\ b[make_square(target_file - 1, pawn_rank)] = pawn
             THEN <<Emit(pawn, Move_new(make_square(target_file - 1, pawn_rank),
                                        t.en_passant, EnPassant))>>
             ELSE <<>>)
            \o (IF target_file < 7 /\ b[make_square(target_file + 1, pawn_rank)] = pawn
                THEN <<Emit(pawn, Move_new(make_square(target_file + 1, pawn_rank),
                                           t.en_passant, EnPassant))>>
                ELSE <<>>)

----------------------------------------------------------------------------
(* moves_gen/src/moves_gen.rs: the legality filter and the enumeration *)

\* does_not_check testing the king's original square for every move,
\* king moves included
does_not_check_king_square_only(b, state, mv) ==
    LET verdict(made) ==
            [result |-> ~is_attacked(made.board, state.king_square,
                                     Occupancy_from_board(made.board,
                                                          state.turn.active_color)),
             board |-> unmake_move_board(made.board, made.change)]
    IN verdict(make_move(b, mv))

\* does_not_check: its verdict and the board it leaves behind
does_not_check(b, state, mv) ==
    LET check_square == IF mv.from = state.king_square THEN mv.to ELSE state.king_square
        verdict(made) ==
            [result |-> ~is_attacked(made.board, check_square,
                                     Occupancy_from_board(made.board,
                                                          state.turn.active_color)),
             board |-> unmake_move_board(made.board, made.change)]
    IN verdict(make_move(b, mv))

\* the do_move closure of for_all_legal_moves_and_captures on the working
\* board: whether the sink was called, with what, and the working board
\* it leaves
do_move(board_mut, state, emitted) ==
    LET outcome(change, checked) ==
            [accepted |-> checked.result,
             mwp |-> MoveWithPieces(emitted.mv, emitted.piece, change.captured),
             sink_board |-> checked.board,
             board |-> unmake_move_board(checked.board, change)]
        filtered(made) ==
            outcome(made.change, does_not_check(made.board, state, emitted.mv))
    IN filtered(make_move(board_mut, emitted.mv))

\* every candidate in the order the finders are called
candidates(b, state) ==
    find_captures(b, state) \o find_en_passant(b, state.turn)
    \o find_moves(b, state) \o find_castles(state)

RECURSIVE run_do_moves(_, _, _, _, _)
run_do_moves(emitted, i, board_mut, state, sunk) ==
    IF i > Len(emitted) THEN [sunk |-> sunk, board_mut |-> board_mut]
    ELSE LET continue(step) ==
                 IF step.accepted
                 THEN run_do_moves(emitted, i + 1, step.board, state,
                                   Append(sunk, step.mwp))
                 ELSE run_do_moves(emitted, i + 1, step.board, state, sunk)
         IN continue(do_move(board_mut, state, emitted[i]))

\* for_all_legal_moves_and_captures: what reached the sink, in order, and
\* the working board at the end
for_all_legal_moves_and_captures(b, state) ==
    run_do_moves(candidates(b, state), 1, b, state, <<>>)

all_legal_moves_and_captures(t, b) ==
    LET moves_of(sunk) == [i \in 1 .. Len(sunk) |-> sunk[i].mv]
    IN moves_of(for_all_legal_moves_and_captures(b, SearchState_new(b, t)).sunk)

\* options::PROMOTION_MIN_DEPTH_LEFT
PROMOTION_MIN_DEPTH_LEFT == 3

\* the four promotion kinds of every pawn that can step onto the last rank
find_promotion_moves(state) ==
    LET white == state.turn.active_color = White
        promo_rank == IF white THEN rank_set(7) ELSE rank_set(0)
        free == Squares \ Occupancy_all(state.occupancy)
        promoting_pawns == (shift_pawns_forward(state.pawns, white) \cap free) \cap promo_rank
        piece == IF white THEN WP ELSE BP
    IN in_key_order({<<4 * to + i,
                       expand_promos(piece, Move_new(shift_square_backward(to, white), to,
                                                     QueenPromotion))[i + 1]>> :
                        <<to, i>> \in promoting_pawns \X (0 .. 3)})

\* a pawn of the colour on the rank before its promotion rank
may_have_promo_move(color, b) ==
    LET pawn == from_type_and_color(Pawn, color)
        near_promo_rank == IF color = White THEN rank_set(6) ELSE rank_set(1)
    IN \E square \in near_promo_rank : b[square] = pawn

\* for_all_legal_quiescent_moves: the moves handed to the action, in order,
\* and the caller's board when it returns.  Its do_move closure makes,
\* tests and unmakes on the caller's board as the closure of
\* for_all_legal_moves_and_captures does on its working board
for_all_legal_quiescent_moves(t, b, depth_left) ==
    LET state == SearchState_new(b, t)
        other_may_promote ==
            /\ depth_left > PROMOTION_MIN_DEPTH_LEFT
            /\ may_have_promo_move(other_color(t.active_color), b)
        emitted ==
            find_captures(b, state)
            \o (IF depth_left >= PROMOTION_MIN_DEPTH_LEFT
                THEN find_promotion_moves(state) ELSE <<>>)
            \o find_en_passant(b, t)
            \o (IF state.in_check \/ other_may_promote THEN find_moves(b, state) ELSE <<>>)
        returned(run) ==
            [moves |-> [i \in 1 .. Len(run.sunk) |-> run.sunk[i].mv], board |-> run.board_mut]
    IN returned(run_do_moves(emitted, 1, b, state, <<>>))

all_legal_quiescent_moves(t, b, depth_left) ==
    for_all_legal_quiescent_moves(t, b, depth_left)

\* count_legal_moves_and_captures: does_not_check run once for each
\* candidate on a fresh copy of the board; the finders are called in an
\* order of their own
count_legal_moves_and_captures(b, state) ==
    LET emitted ==
            find_non_pawn_captures(b, state) \o find_non_pawn_moves(b, state)
            \o find_pawn_captures(state) \o find_en_passant(b, state.turn)
            \o find_pawn_pushes(state) \o find_castles(state)
    IN Cardinality({i \in 1 .. Len(emitted) : does_not_check(b, state, emitted[i].mv).result})

----------------------------------------------------------------------------
(* perft/src/perft.rs *)

RECURSIVE perft(_, _)
RECURSIVE perft_sum(_, _, _, _)

\* the loop over the move list
perft_sum(pos, list, i, depth) ==
    IF i > Len(list) THEN 0
    ELSE perft(apply_move(pos, list[i]), depth - 1) + perft_sum(pos, list, i + 1, depth)

perft(pos, depth) ==
    IF depth = 0 THEN 1
    ELSE perft_sum(pos, all_legal_moves_and_captures(pos.turn, pos.board), 1, depth)

----------------------------------------------------------------------------
(* fen/src/fen.rs and fen/src/types.rs: piece placement *)

from_char(c) ==
    CASE c = "P" -> WP [] c = "N" -> WN [] c = "B" -> WB
      [] c = "R" -> WR [] c = "Q" -> WQ [] c = "K" -> WK
      [] c = "p" -> BP [] c = "n" -> BN [] c = "b" -> BB
      [] c = "r" -> BR [] c = "q" -> BQ [] c = "k" -> BK
      [] OTHER -> Empty

\* the board of a diagram: eight ranks, rank 8 first, each eight squares
\* from the a-file to the h-file
parse_piece_placement(ranks) ==
    [s \in Squares |-> from_char(ranks[8 - rank_of(s)][file_of(s) + 1])]

Position_new(b, t) == [board |-> b, turn |-> t]

EmptyRank == <<".", ".", ".", ".", ".", ".", ".", ".">>

\* INITIAL_POSITION
InitialPosition ==
    Position_new(
        parse_piece_placement(<<
            <<"r", "n", "b", "q", "k", "b", "n", "r">>,
            <<"p", "p", "p", "p", "p", "p", "p", "p">>,
            EmptyRank, EmptyRank, EmptyRank, EmptyRank,
            <<"P", "P", "P", "P", "P", "P", "P", "P">>,
            <<"R", "N", "B", "Q", "K", "B", "N", "R">> >>),
        Turn_new(White, CastlingRights, NO_EN_PASSANT_TARGET, 0, 1))

----------------------------------------------------------------------------
(* The positions the search starts from *)

\* 4k3/8/4Qn2/3K4/8/8/8/8 b - - 0 1: the king-in-check test position
PinnedKnightPosition ==
    Position_new(
        parse_piece_placement(<<
            <<".", ".", ".", ".", "k", ".", ".", ".">>,
            EmptyRank,
            <<".", ".", ".", ".", "Q", "n", ".", ".">>,
            <<".", ".", ".", "K", ".", ".", ".", ".">>,
            EmptyRank, EmptyRank, EmptyRank, EmptyRank>>),
        Turn_new(Black, {}, NO_EN_PASSANT_TARGET, 0, 1))

\* 4r2k/8/8/8/8/8/R7/4K3 w - - 3 9: check on the e-file, the rook can interpose
InterposePosition ==
    Position_new(
        parse_piece_placement(<<
            <<".", ".", ".", ".", "r", ".", ".", "k">>,
            EmptyRank, EmptyRank, EmptyRank, EmptyRank, EmptyRank,
            <<"R", ".", ".", ".", ".", ".", ".", ".">>,
            <<".", ".", ".", ".", "K", ".", ".", ".">> >>),
        Turn_new(White, {}, NO_EN_PASSANT_TARGET, 3, 9))

\* k4r2/8/8/8/8/8/8/4K2R w K - 0 1: the f1 square is attacked
CastleTransitPosition ==
    Position_new(
        parse_piece_placement(<<
            <<"k", ".", ".", ".", ".", "r", ".", ".">>,
            EmptyRank, EmptyRank, EmptyRank, EmptyRank, EmptyRank, EmptyRank,
            <<".", ".", ".", ".", "K", ".", ".", "R">> >>),
        Turn_new(White, {"K"}, NO_EN_PASSANT_TARGET, 0, 1))

\* rn2k3/8/8/8/8/8/8/4K3 b q - 0 1: a knight stands between rook and king
BlackQueenSidePosition ==
    Position_new(
        parse_piece_placement(<<
            <<"r", "n", ".", ".", "k", ".", ".", ".">>,
            EmptyRank, EmptyRank, EmptyRank, EmptyRank, EmptyRank, EmptyRank,
            <<".", ".", ".", ".", "K", ".", ".", ".">> >>),
        Turn_new(Black, {"q"}, NO_EN_PASSANT_TARGET, 0, 1))

\* r3k2r/8/8/8/8/8/8/R3K2R w KQkq - 0 1 without the a-file rooks' partners:
\* both colours hold rights and a rook can be captured on its home square
RookHomePosition ==
    Position_new(
        parse_piece_placement(<<
            <<"r", ".", ".", ".", "k", ".", ".", ".">>,
            EmptyRank, EmptyRank, EmptyRank, EmptyRank, EmptyRank, EmptyRank,
            <<"R", ".", ".", ".", "K", ".", ".", ".">> >>),
        Turn_new(White, {"Q", "q"}, NO_EN_PASSANT_TARGET, 0, 1))

\* 4k2r/8/8/3pP3/8/8/8/4K3 w k d6 0 2: black has just played d7-d5
EnPassantPosition ==
    Position_new(
        parse_piece_placement(<<
            <<".", ".", ".", ".", "k", ".", ".", "r">>,
            EmptyRank, EmptyRank,
            <<".", ".", ".", "p", "P", ".", ".", ".">>,
            EmptyRank, EmptyRank, EmptyRank,
            <<".", ".", ".", ".", "K", ".", ".", ".">> >>),
        Turn_new(White, {"k"}, make_square(3, 5), 0, 2))

\* 4k3/7p/8/8/1p6/8/P7/4K3 w - - 0 1: pawns on their initial ranks
DoublePushPosition ==
    Position_new(
        parse_piece_placement(<<
            <<".", ".", ".", ".", "k", ".", ".", ".">>,
            <<".", ".", ".", ".", ".", ".", ".", "p">>,
            EmptyRank, EmptyRank,
            <<".", "p", ".", ".", ".", ".", ".", ".">>,
            EmptyRank,
            <<"P", ".", ".", ".", ".", ".", ".", ".">>,
            <<".", ".", ".", ".", "K", ".", ".", ".">> >>),
        Turn_new(White, {}, NO_EN_PASSANT_TARGET, 5, 1))

\* 1n2k3/P7/8/8/8/8/7p/4K1N1 w - - 0 1: both colours can promote, with
\* and without a capture
PromotionPosition ==
    Position_new(
        parse_piece_placement(<<
            <<".", "n", ".", ".", "k", ".", ".", ".">>,
            <<"P", ".", ".", ".", ".", ".", ".", ".">>,
            EmptyRank, EmptyRank, EmptyRank, EmptyRank,
            <<".", ".", ".", ".", ".", ".", ".", "p">>,
            <<".", ".", ".", ".", "K", ".", "N", ".">> >>),
        Turn_new(White, {}, NO_EN_PASSANT_TARGET, 0, 1))

\* r3k3/8/8/8/8/8/7P/4K3 w q - 255 65535: parse_position takes the two
\* clocks with parse::<u8> and parse::<u16>, so every value of the two
\* widths is accepted
ClockLimitPosition ==
    Position_new(
        parse_piece_placement(<<
            <<"r", ".", ".", ".", "k", ".", ".", ".">>,
            EmptyRank, EmptyRank, EmptyRank, EmptyRank, EmptyRank,
            <<".", ".", ".", ".", ".", ".", ".", "P">>,
            <<".", ".", ".", ".", "K", ".", ".", ".">> >>),
        Turn_new(White, {"q"}, NO_EN_PASSANT_TARGET, 255, 65535))

Roots ==
    {PinnedKnightPosition, InterposePosition, CastleTransitPosition,
     BlackQueenSidePosition, RookHomePosition, EnPassantPosition,
     DoublePushPosition, PromotionPosition, ClockLimitPosition}

----------------------------------------------------------------------------
(* hash/src/hash.rs: Hash.  A hash value is modelled by the set of indices *)
(* of the vectors XORed into it an odd number of times: XOR with a vector  *)
(* adds its index to the set or removes it from the set                    *)

NUM_PIECES == 13
NUM_EXTRA_VECTORS == 24
NUM_BOARD_VECTORS == NUM_PIECES * NUM_SQUARES
NUM_HASH_VECTORS == NUM_BOARD_VECTORS + NUM_EXTRA_VECTORS

BLACK_TO_MOVE == NUM_BOARD_VECTORS + 0

\* Hash::CASTLING_0 .. CASTLING_3
castling_vector(right) ==
    CASE right = "K" -> NUM_BOARD_VECTORS + 1
      [] right = "Q" -> NUM_BOARD_VECTORS + 2
      [] right = "k" -> NUM_BOARD_VECTORS + 3
      [] right = "q" -> NUM_BOARD_VECTORS + 4

EN_PASSANT_A == NUM_BOARD_VECTORS + 16

Hash_new == {}

toggle_vector(hash, vector_idx) ==
    IF vector_idx \in hash THEN hash \ {vector_idx} ELSE hash \cup {vector_idx}

toggle_piece(hash, piece, square) == toggle_vector(hash, piece * NUM_SQUARES + square)

\* toggle_castling looking at the two white rights only
toggle_castling_white_only(hash, mask) ==
    LET k == IF "K" \in mask THEN toggle_vector(hash, castling_vector("K")) ELSE hash
    IN IF "Q" \in mask THEN toggle_vector(k, castling_vector("Q")) ELSE k

toggle_castling(hash, mask) ==
    LET wk == IF "K" \in mask THEN toggle_vector(hash, castling_vector("K")) ELSE hash
        wq == IF "Q" \in mask THEN toggle_vector(wk, castling_vector("Q")) ELSE wk
        bk == IF "k" \in mask THEN toggle_vector(wq, castling_vector("k")) ELSE wq
    IN IF "q" \in mask THEN toggle_vector(bk, castling_vector("q")) ELSE bk

move_piece(hash, piece, from, to) == toggle_piece(toggle_piece(hash, piece, from), piece, to)

\* capture_piece leaving the vector of the captured piece in the hash
capture_piece_keep_target(hash, piece, target, from, to) ==
    toggle_piece(toggle_piece(hash, piece, from), piece, to)

capture_piece(hash, piece, target, from, to) ==
    toggle_piece(toggle_piece(toggle_piece(hash, piece, from), target, to), piece, to)

\* the loop of Hash::from_position over the squares in ascending order
RECURSIVE hash_pieces(_, _, _)
hash_pieces(b, square_idx, hash) ==
    IF square_idx = NUM_SQUARES THEN hash
    ELSE IF b[square_idx] # Empty /\ hash \subseteq 0 .. NUM_HASH_VECTORS
         THEN hash_pieces(b, square_idx + 1, toggle_piece(hash, b[square_idx], square_idx))
         ELSE hash_pieces(b, square_idx + 1, hash)

\* Hash::from_position
from_position(pos) ==
    LET pieces == hash_pieces(pos.board, 0, Hash_new)
        side == IF pos.turn.active_color = Black
                THEN toggle_vector(pieces, BLACK_TO_MOVE) ELSE pieces
        rights == toggle_castling(side, pos.turn.castling)
    IN IF pos.turn.en_passant # NO_EN_PASSANT_TARGET
       THEN toggle_vector(rights, EN_PASSANT_A + file_of(pos.turn.en_passant))
       ELSE rights

\* the toggles that follow the board through one make: move_piece for a
\* quiet move or a double push, capture_piece for a capture, move_piece
\* for the king and for the rook of a castling move, move_piece and the
\* captured pawn's toggle_piece for an en-passant capture, and toggle_piece
\* for the pawn, the captured piece and the promoted piece of a promotion
hash_board_changes(hash, b, mv) ==
    LET piece == b[mv.from]
        target == b[mv.to]
        compound == compound_move(mv)
    IN CASE mv.kind \in {OO, OOO} ->
                move_piece(move_piece(hash, piece, mv.from, mv.to),
                           b[compound.second.from],
                           compound.second.from, compound.second.to)
         [] mv.kind = EnPassant ->
                toggle_piece(move_piece(hash, piece, mv.from, mv.to),
                             b[compound.to], compound.to)
         [] is_promotion(mv.kind) ->
                LET promoted == from_type_and_color(promotion_piece(mv), piece_color(piece))
                    lifted == toggle_piece(hash, piece, mv.from)
                    taken == IF is_capture(mv.kind)
                             THEN toggle_piece(lifted, target, mv.to)
                             ELSE lifted
                IN toggle_piece(taken, promoted, mv.to)
         [] is_capture(mv.kind) ->
                capture_piece(hash, piece, target, mv.from, mv.to)
         [] OTHER ->
                move_piece(hash, piece, mv.from, mv.to)

\* the toggles that follow the turn state from 'before' to 'after':
\* toggle_vector for the side to move, toggle_castling for the rights that
\* changed, toggle_vector for the file of the target that went away and
\* for the file of the target that was set
hash_turn_changes(hash, before, after) ==
    LET side == IF before.active_color # after.active_color
                THEN toggle_vector(hash, BLACK_TO_MOVE) ELSE hash
        rights == toggle_castling(side, (before.castling \ after.castling)
                                            \cup (after.castling \ before.castling))
        gone == IF before.en_passant # NO_EN_PASSANT_TARGET
                THEN toggle_vector(rights, EN_PASSANT_A + file_of(before.en_passant))
                ELSE rights
    IN IF after.en_passant # NO_EN_PASSANT_TARGET
       THEN toggle_vector(gone, EN_PASSANT_A + file_of(after.en_passant))
       ELSE gone

\* the hash kept alongside the board: 'pos' is the position a move is made
\* on and 'after' the turn state the make leaves.  The same toggles take
\* the hash back when the move is unmade
hash_apply_move(hash, pos, mv, after) ==
    hash_turn_changes(hash_board_changes(hash, pos.board, mv), pos.turn, after)

----------------------------------------------------------------------------
(* fen/src/fen.rs: the text form of a Position.  A string is the sequence  *)
(* of its characters; a Result is a record whose 'ok' field tells Ok from  *)
(* Err, and only an Ok carries a value                                     *)

\* Piece::to_char
to_char(piece) ==
    <<"P", "N", "B", "R", "Q", "K", ".", "p", "n", "b", "r", "q", "k">>[piece + 1]

\* the decimal digits: (b'0' + n) as char, char::is_ascii_digit, char::to_digit
digit_chars == <<"0", "1", "2", "3", "4", "5", "6", "7", "8", "9">>

is_ascii_digit(c) == \E i \in 1 .. 10 : digit_chars[i] = c

to_digit(c) == (CHOOSE i \in 1 .. 10 : digit_chars[i] = c) - 1

file_chars == <<"a", "b", "c", "d", "e", "f", "g", "h">>

\* Display for Square
square_to_string(square) ==
    <<file_chars[file_of(square) + 1], digit_chars[rank_of(square) + 2]>>

\* Display for u8 and u16: decimal, no leading zero
RECURSIVE unsigned_to_string(_)
unsigned_to_string(n) ==
    IF n < 10 THEN <<digit_chars[n + 1]>>
    ELSE Append(unsigned_to_string(n \div 10), digit_chars[(n % 10) + 1])

\* board_to_string carrying the count of empty squares over a piece
board_to_string_running_count(b) ==
    LET flush(empty_count, result) ==
            IF empty_count > 0 THEN Append(result, digit_chars[empty_count + 1]) ELSE result
        \* the test of Len makes the string written so far a value
        RECURSIVE files_from(_, _, _, _)
        files_from(rank, file, empty_count, result) ==
            IF Len(result) >= 0 /\ file = NUM_FILES THEN flush(empty_count, result)
            ELSE IF b[make_square(file, rank)] = Empty
                 THEN files_from(rank, file + 1, empty_count + 1, result)
                 ELSE files_from(rank, file + 1, empty_count,
                                 Append(flush(empty_count, result),
                                        to_char(b[make_square(file, rank)])))
        RECURSIVE ranks_from(_, _)
        ranks_from(rank, result) ==
            IF Len(result) >= 0 /\ rank < 0 THEN result
            ELSE ranks_from(rank - 1,
                            files_from(rank, 0, 0, result)
                                \o (IF rank > 0 THEN <<"/">> ELSE <<>>))
    IN ranks_from(NUM_RANKS - 1, <<>>)

board_to_string(b) ==
    LET flush(empty_count, result) ==
            IF empty_count > 0 THEN Append(result, digit_chars[empty_count + 1]) ELSE result
        \* the test of Len makes the string written so far a value
        RECURSIVE files_from(_, _, _, _)
        files_from(rank, file, empty_count, result) ==
            IF Len(result) >= 0 /\ file = NUM_FILES THEN flush(empty_count, result)
            ELSE IF b[make_square(file, rank)] = Empty
                 THEN files_from(rank, file + 1, empty_count + 1, result)
                 ELSE files_from(rank, file + 1, 0,
                                 Append(flush(empty_count, result),
                                        to_char(b[make_square(file, rank)])))
        RECURSIVE ranks_from(_, _)
        ranks_from(rank, result) ==
            IF Len(result) >= 0 /\ rank < 0 THEN result
            ELSE ranks_from(rank - 1,
                            files_from(rank, 0, 0, result)
                                \o (IF rank > 0 THEN <<"/">> ELSE <<>>))
    IN ranks_from(NUM_RANKS - 1, <<>>)

position_to_string(pos) ==
    LET castling == pos.turn.castling
        castling_field ==
            IF castling = {} THEN <<"-">>
            ELSE (IF "K" \in castling THEN <<"K">> ELSE <<>>)
                    \o (IF "Q" \in castling THEN <<"Q">> ELSE <<>>)
                    \o (IF "k" \in castling THEN <<"k">> ELSE <<>>)
                    \o (IF "q" \in castling THEN <<"q">> ELSE <<>>)
    IN board_to_string(pos.board)
        \o <<" ">> \o (IF pos.turn.active_color = White THEN <<"w">> ELSE <<"b">>)
        \o <<" ">> \o castling_field
        \o <<" ">> \o (IF pos.turn.en_passant = NO_EN_PASSANT_TARGET
                       THEN <<"-">> ELSE square_to_string(pos.turn.en_passant))
        \o <<" ">> \o unsigned_to_string(pos.turn.halfmove)
        \o <<" ">> \o unsigned_to_string(pos.turn.fullmove)

Ok(value) == [ok |-> TRUE, value |-> value]

Err == [ok |-> FALSE]

\* str::split on one separator character: the pieces, empty ones included
RECURSIVE split(_, _, _, _)
split(chars, separator, i, pieces) ==
    IF Len(pieces) >= 0 /\ i > Len(chars) THEN pieces
    ELSE IF chars[i] = separator
         THEN split(chars, separator, i + 1, Append(pieces, <<>>))
         ELSE split(chars, separator, i + 1,
                    [pieces EXCEPT ![Len(pieces)] = Append(pieces[Len(pieces)], chars[i])])

\* str::split_whitespace: the non-empty pieces between blanks
split_whitespace(chars) ==
    LET non_empty(piece) == piece # <<>>
    IN SelectSeq(split(chars, " ", 1, << <<>> >>), non_empty)

\* parse_piece_placement on the characters of the field
parse_piece_placement_chars(piece_placement) ==
    LET ranks == split(piece_placement, "/", 1, << <<>> >>)
        \* the loop over the characters of one rank: the file reached and
        \* the board, or an error
        RECURSIVE chars_from(_, _, _, _)
        chars_from(rank_index, i, file, b) ==
            IF i > Len(ranks[rank_index])
            THEN IF file # 8 THEN Err ELSE Ok(b)
            ELSE IF file >= 8 THEN Err
            ELSE IF is_ascii_digit(ranks[rank_index][i])
                 THEN IF to_digit(ranks[rank_index][i]) = 0 \/ to_digit(ranks[rank_index][i]) > 8
                      THEN Err
                      ELSE chars_from(rank_index, i + 1,
                                      file + to_digit(ranks[rank_index][i]), b)
            ELSE IF from_char(ranks[rank_index][i]) # Empty
                 THEN chars_from(rank_index, i + 1, file + 1,
                                 [b EXCEPT ![make_square(file, 8 - rank_index)] =
                                     from_char(ranks[rank_index][i])])
                 ELSE Err
        RECURSIVE ranks_from(_, _)
        ranks_from(rank_index, parsed) ==
            IF ~parsed.ok \/ rank_index > Len(ranks) THEN parsed
            ELSE ranks_from(rank_index + 1, chars_from(rank_index, 1, 0, parsed.value))
    IN IF Len(ranks) # 8 THEN Err ELSE ranks_from(1, Ok(EmptyBoard))

parse_square(square_str) ==
    IF Len(square_str) # 2 THEN Err
    ELSE IF ~(\E f \in 1 .. 8 : file_chars[f] = square_str[1]) THEN Err
    ELSE IF ~(is_ascii_digit(square_str[2]) /\ to_digit(square_str[2]) \in 1 .. 8) THEN Err
    ELSE Ok(make_square((CHOOSE f \in 1 .. 8 : file_chars[f] = square_str[1]) - 1,
                        to_digit(square_str[2]) - 1))

\* str::parse::<u8> and str::parse::<u16>: an optional '+', then one digit
\* or more, and a value below the modulus of the width
parse_unsigned(chars, modulus) ==
    LET digits == IF chars # <<>> /\ chars[1] = "+" THEN Tail(chars) ELSE chars
        RECURSIVE value_from(_, _)
        value_from(i, value) ==
            IF i > Len(digits) THEN Ok(value)
            ELSE IF ~is_ascii_digit(digits[i]) THEN Err
            ELSE IF value * 10 + to_digit(digits[i]) >= modulus THEN Err
            ELSE value_from(i + 1, value * 10 + to_digit(digits[i]))
    IN IF digits = <<>> THEN Err ELSE value_from(1, 0)

\* the fields of parse_position after the split
parse_position_parts(parts) ==
    LET board_result == parse_piece_placement_chars(parts[1])
        castling_ok == parts[3] = <<"-">>
                          \/ \A i \in 1 .. Len(parts[3]) : parts[3][i] \in CastlingRights
        castling_mask_parsed ==
            IF parts[3] = <<"-">> THEN {} ELSE {parts[3][i] : i \in 1 .. Len(parts[3])}
        en_passant_target ==
            IF parts[4] = <<"-">> THEN Ok(NO_EN_PASSANT_TARGET) ELSE parse_square(parts[4])
        halfmove_clock == parse_unsigned(parts[5], HalfmoveModulus)
        fullmove_number == parse_unsigned(parts[6], FullmoveModulus)
    IN IF ~board_result.ok THEN Err
       ELSE IF parts[2] \notin {<<"w">>, <<"b">>} THEN Err
       ELSE IF ~castling_ok THEN Err
       ELSE IF ~en_passant_target.ok THEN Err
       ELSE IF ~halfmove_clock.ok THEN Err
       ELSE IF ~fullmove_number.ok THEN Err
       ELSE Ok(Position_new(board_result.value,
                            Turn_new(IF parts[2] = <<"w">> THEN White ELSE Black,
                                     castling_mask_parsed,
                                     en_passant_target.value,
                                     halfmove_clock.value,
                                     fullmove_number.value)))

parse_position(fen) ==
    IF Len(split_whitespace(fen)) # 6 THEN Err
    ELSE parse_position_parts(split_whitespace(fen))

----------------------------------------------------------------------------
(* eval/src: Score, the piece-square tables and evaluate_board.  A Score   *)
(* is its centipawn value; a SquareTable is the tuple of its 64 scores,    *)
(* rank 1 first                                                            *)

\* i16 division: the quotient truncated toward zero
trunc_div(a, b) == IF a >= 0 THEN a \div b ELSE -((-a) \div b)

\* the range Score::from_cp asserts
MAX_VALUE == 9999

\* mod bill_jordan: PIECE_VALUES and the seven piece-square tables
bill_jordan ==
    [PIECE_VALUES |-> <<100, 300, 300, 500, 900>>,
     PAWN |->
        <<0, 0, 0, 0, 0, 0, 0, 0,
          0, 2, 4, -12, -12, 4, 2, 0,
          0, 2, 4, 4, 4, 4, 2, 0,
          0, 2, 4, 8, 8, 4, 2, 0,
          0, 2, 4, 8, 8, 4, 2, 0,
          4, 8, 10, 16, 16, 10, 8, 4,
          100, 100, 100, 100, 100, 100, 100, 100,
          0, 0, 0, 0, 0, 0, 0, 0>>,
     KNIGHT |->
        <<-30, -20, -10, -8, -8, -10, -20, -30,
          -16, -6, -2, 0, 0, -2, -6, -16,
          -8, -2, 4, 6, 6, 4, -2, -8,
          -5, 0, 6, 8, 8, 6, 0, -5,
          -5, 0, 6, 8, 8, 6, 0, -5,
          -10, -2, 4, 6, 6, 4, -2, -10,
          -20, -10, -2, 0, 0, -2, -10, -20,
          -150, -20, -10, -5, -5, -10, -20, -150>>,
     BISHOP |->
        <<-10, -10, -12, -10, -10, -12, -10, -10,
          0, 4, 4, 4, 4, 4, 4, 0,
          2, 4, 6, 6, 6, 6, 4, 2,
          2, 4, 6, 8, 8, 6, 4, 2,
          2, 4, 6, 8, 8, 6, 4, 2,
          2, 4, 6, 6, 6, 6, 4, 2,
          -10, 4, 4, 4, 4, 4, 4, -10,
          -10, -10, -10, -10, -10, -10, -10, -10>>,
     ROOK |->
        <<4, 4, 4, 6, 6, 4, 4, 4,
          0, 0, 0, 0, 0, 0, 0, 0,
          0, 0, 0, 0, 0, 0, 0, 0,
          0, 0, 0, 0, 0, 0, 0, 0,
          0, 0, 0, 0, 0, 0, 0, 0,
          0, 0, 0, 0, 0, 0, 0, 0,
          20, 20, 20, 20, 20, 20, 20, 20,
          10, 10, 10, 10, 10, 10, 10, 10>>,
     QUEEN |->
        <<-10, -10, -6, -4, -4, -6, -10, -10,
          -10, 2, 2, 2, 2, 2, 2, -10,
          2, 2, 2, 3, 3, 2, 2, 2,
          2, 2, 3, 4, 4, 3, 2, 2,
          2, 2, 2, 3, 3, 2, 2, 2,
          -10, 2, 2, 2, 2, 2, 2, -10,
          -10, -10, 2, 2, 2, 2, -10, -10,
          0, 0, 0, 0, 0, 0, 0, 0>>,
     KING_MIDDLEGAME |->
        <<20, 20, 20, -40, 10, -60, 20, 20,
          15, 2, -25, -30, -30, -45, 20, 15,
          -48, -48, -48, -48, -48, -48, -48, -48,
          -48, -48, -48, -48, -48, -48, -48, -48,
          -48, -48, -48, -48, -48, -48, -48, -48,
          -48, -48, -48, -48, -48, -48, -48, -48,
          -48, -48, -48, -48, -48, -48, -48, -48,
          -48, -48, -48, -48, -48, -48, -48, -48>>,
     KING_ENDGAME |->
        <<0, 8, 16, 18, 18, 16, 8, 0,
          8, 16, 24, 32, 32, 24, 16, 8,
          16, 24, 32, 40, 40, 32, 24, 16,
          25, 32, 40, 48, 48, 40, 32, 25,
          25, 32, 40, 48, 48, 40, 32, 25,
          16, 24, 32, 40, 40, 32, 24, 16,
          8, 16, 24, 32, 32, 24, 16, 8,
          0, 8, 16, 18, 18, 16, 8, 0>>]

\* GamePhase::new: the phase of the board, 7 (opening) down to 0 (endgame)
GamePhase_new(b) ==
    LET pawns(ptype) ==
            CASE ptype = Pawn -> 1 [] ptype = Knight -> 3 [] ptype = Bishop -> 3
              [] ptype = Rook -> 5 [] ptype = Queen -> 9 [] OTHER -> 0
        material(side) ==
            LET RECURSIVE sum_from(_, _)
                sum_from(square, total) ==
                    IF total >= 0 /\ square = NUM_SQUARES THEN total
                    ELSE IF b[square] # Empty /\ piece_color(b[square]) = side
                         THEN sum_from(square + 1, total + pawns(piece_type(b[square])))
                         ELSE sum_from(square + 1, total)
            IN sum_from(0, 0)
        larger == IF material(Black) > material(White) THEN material(Black) ELSE material(White)
        phase == trunc_div(larger - 10, 2)
    IN IF phase < 0 THEN 0 ELSE IF phase > 7 THEN 7 ELSE phase

\* GamePhase::interpolate with GamePhase::WEIGHTS; Score's Mul is
\* value * rhs / 100
interpolate(phase, opening, endgame) ==
    LET opening_weight == <<0, 14, 28, 42, 58, 72, 86, 100>>[phase + 1]
        endgame_weight == 100 - opening_weight
    IN [i \in 1 .. NUM_SQUARES |->
            trunc_div(opening[i] * opening_weight, 100)
                + trunc_div(endgame[i] * endgame_weight, 100)]

\* flip_table: the ranks mirrored and every score negated
flip_table(table) ==
    [i \in 1 .. NUM_SQUARES |-> -table[((7 - ((i - 1) \div 8)) * 8 + ((i - 1) % 8)) + 1]]

\* EvalTable::with_piece_square_tables: one SquareTable per piece
with_piece_square_tables(b) ==
    LET phase == GamePhase_new(b)
        king_table == interpolate(phase, bill_jordan.KING_MIDDLEGAME, bill_jordan.KING_ENDGAME)
        square_table(ptype) ==
            CASE ptype = Pawn -> bill_jordan.PAWN
              [] ptype = Knight -> bill_jordan.KNIGHT
              [] ptype = Bishop -> bill_jordan.BISHOP
              [] ptype = Rook -> bill_jordan.ROOK
              [] ptype = Queen -> bill_jordan.QUEEN
              [] ptype = King -> king_table
        piece_value(ptype) ==
            CASE ptype = Pawn -> bill_jordan.PIECE_VALUES[1]
              [] ptype = Knight -> bill_jordan.PIECE_VALUES[2]
              [] ptype = Bishop -> bill_jordan.PIECE_VALUES[3]
              [] ptype = Rook -> bill_jordan.PIECE_VALUES[4]
              [] ptype = Queen -> bill_jordan.PIECE_VALUES[5]
              [] ptype = King -> 0
        valued(ptype) ==
            [i \in 1 .. NUM_SQUARES |-> square_table(ptype)[i] + piece_value(ptype)]
    IN [piece \in Pieces \ {Empty} |->
            IF piece_color(piece) = Black
            THEN flip_table(valued(piece_type(piece)))
            ELSE valued(piece_type(piece))]

\* a returned Score, and the panic of the assertion in Score::from_cp
Returned(cp) == [panicked |-> FALSE, cp |-> cp]

Panicked == [panicked |-> TRUE]

\* evaluate_board_with_table: the scores of the pieces added in the order
\* of the squares, a rank of eight squares at a time; every sum goes
\* through Score::from_cp
evaluate_board_with_table(b, table) ==
    LET from_cp(cp) == IF cp > MAX_VALUE \/ cp < -MAX_VALUE THEN Panicked ELSE Returned(cp)
        add(value, square) ==
            IF value.panicked \/ b[square] = Empty THEN value
            ELSE from_cp(value.cp + table[b[square]][square + 1])
        RECURSIVE value_from(_, _)
        value_from(rank, value) ==
            IF value.panicked \/ rank = NUM_RANKS THEN value
            ELSE value_from(rank + 1,
                    add(add(add(add(add(add(add(add(value,
                        8 * rank), 8 * rank + 1), 8 * rank + 2), 8 * rank + 3),
                        8 * rank + 4), 8 * rank + 5), 8 * rank + 6), 8 * rank + 7))
    IN value_from(0, from_cp(0))

evaluate_board(b) == evaluate_board_with_table(b, with_piece_square_tables(b))

----------------------------------------------------------------------------
(* elo-test/src/elo.rs: ELO.  An ELO is its rating                         *)

INITIAL_RATING == 800
MIN_RATING == 100
MAX_RATING == 4000
K == 32

\* enum Result with its discriminants
Loss == 0
Draw == 1
Win == 2

ELO_new == INITIAL_RATING

\* ELO::with_rating: the rating clamped to MIN_RATING .. MAX_RATING
with_rating(rating) ==
    IF rating < MIN_RATING THEN MIN_RATING
    ELSE IF rating > MAX_RATING THEN MAX_RATING
    ELSE rating

\* (K as f64 * expected).round() for expected = 1.0 / (1.0 + 10^(rating_diff / 400)):
\* the value falls from K to 0 as rating_diff grows, by one at each of the
\* differences listed, which are the least integers d with
\* K / (1 + 10^(d / 400)) below K - 1/2, K - 3/2, ..., 1/2
expected_share(rating_diff) ==
    K - Cardinality({d \in {-719, -523, -428, -364, -314, -273, -237, -205, -176, -149,
                             -124, -100, -77, -54, -32, -10, 11, 33, 55, 78, 101, 125,
                             150, 177, 206, 238, 274, 315, 365, 429, 524, 720} :
                        d <= rating_diff})

\* update_both clamping each new rating as with_rating does
update_both_clamped(self, opponent, result) ==
    LET change == (K \div 2) * result - expected_share(opponent - self)
    IN [self |-> with_rating(self + change), opponent |-> with_rating(opponent - change)]

\* ELO::update_both: the two ratings after the call; the change is
\* (K * (result * 0.5 - expected)).round()
update_both(self, opponent, result) ==
    LET change == (K \div 2) * result - expected_share(opponent - self)
    IN [self |-> self + change, opponent |-> opponent - change]

\* ELO::update_one: update_both runs on a copy of the opponent, which the
\* caller's opponent does not see
update_one(self, opponent, result) ==
    [self |-> update_both(self, opponent, result).self, opponent |-> opponent]

EloStart(self, opponent) ==
    [self |-> self, opponent |-> opponent, calls |-> <<>>,
     previous |-> opponent, sum |-> self + opponent]

----------------------------------------------------------------------------
(* The lazily built tables: MAGIC_TABLES (magic/src/magic.rs) and          *)
(* HASH_VECTORS (hash/src/hash.rs), each a std::sync::OnceLock filled by   *)
(* get_or_init                                                             *)

Cells == {"MAGIC_TABLES", "HASH_VECTORS"}

Threads == 1 .. NumThreads

\* what the initializer of a cell computes: init_magics for MAGIC_TABLES,
\* the closure of hash_vectors for HASH_VECTORS; both are deterministic and
\* fill their table entry by entry
initializer_entry(cell, i) == <<cell, i>>

built_table(cell) == [i \in 1 .. TableSize |-> initializer_entry(cell, i)]

\* the state every OnceLock static and every thread starts in
OnceStart ==
    /\ once_state = [c \in Cells |-> "incomplete"]
    /\ once_value = [c \in Cells |-> <<>>]
    /\ installs = [c \in Cells |-> 0]
    /\ thread = [t \in Threads |->
                    [pc |-> "idle", cell |-> "MAGIC_TABLES", local |-> <<>>,
                     seen |-> <<>>, calls |-> 0]]

\* OnceLock::get_or_init reading the guard with the state after the store
\* of the slot not yet published
once_is_initialized_when_started(state) == state # "incomplete"

\* OnceLock::is_initialized: the guard is complete
once_is_initialized(state) == state = "complete"

\* a thread calls get_magic_tables or hash_vectors: the fast path of
\* get_or_init returns the slot when the guard is complete
GetOrInit(t, cell) ==
    /\ thread[t].pc = "idle"
    /\ thread[t].calls < MaxCalls
    /\ thread' = [thread EXCEPT ![t] =
                    IF once_is_initialized(once_state[cell])
                    THEN [@ EXCEPT !.cell = cell, !.calls = @ + 1,
                                   !.seen = once_value[cell]]
                    ELSE [@ EXCEPT !.cell = cell, !.calls = @ + 1, !.pc = "enter"]]
    /\ UNCHANGED <<once_state, once_value, installs>>

\* the slow path: the first thread to find the guard incomplete marks it
\* running and starts the initializer; a thread that finds it running
\* waits; a thread that finds it complete goes on to read the slot
Enter(t) ==
    /\ thread[t].pc = "enter"
    /\ LET cell == thread[t].cell
       IN \/ /\ once_state[cell] = "incomplete"
             /\ once_state' = [once_state EXCEPT ![cell] = "running"]
             /\ thread' = [thread EXCEPT ![t].pc = "init", ![t].local = <<>>]
          \/ /\ once_is_initialized(once_state[cell])
             /\ thread' = [thread EXCEPT ![t].pc = "idle",
                                         ![t].seen = once_value[cell]]
             /\ UNCHANGED once_state
    /\ UNCHANGED <<once_value, installs>>

\* the initializer computes the next entry of the table it is building
InitStep(t) ==
    /\ thread[t].pc = "init"
    /\ Len(thread[t].local) < TableSize
    /\ thread' = [thread EXCEPT ![t].local =
                    Append(@, initializer_entry(thread[t].cell, Len(@) + 1))]
    /\ UNCHANGED <<once_state, once_value, installs>>

\* the initializer has returned: its table is written into the slot
Store(t) ==
    /\ thread[t].pc = "init"
    /\ Len(thread[t].local) = TableSize
    /\ once_value' = [once_value EXCEPT ![thread[t].cell] = thread[t].local]
    /\ installs' = [installs EXCEPT ![thread[t].cell] = @ + 1]
    /\ thread' = [thread EXCEPT ![t].pc = "publish"]
    /\ UNCHANGED once_state

\* the guard is set complete and the initializing thread gets the slot
Publish(t) ==
    /\ thread[t].pc = "publish"
    /\ once_state' = [once_state EXCEPT ![thread[t].cell] = "complete"]
    /\ thread' = [thread EXCEPT ![t].pc = "idle", ![t].local = <<>>,
                                ![t].seen = once_value[thread[t].cell]]
    /\ UNCHANGED <<once_value, installs>>

OnceInit ==
    /\ board = InitialPosition.board
    /\ turn = InitialPosition.turn
    /\ root = InitialPosition
    /\ move_list = <<>>
    /\ undo = <<>>
    /\ history = <<>>
    /\ perft_result = <<>>
    /\ OnceStart
    /\ elo = EloStart(ELO_new, ELO_new)

OnceNext ==
    \E t \in Threads :
        \/ \E cell \in Cells : GetOrInit(t, cell) /\ UNCHANGED <<search_vars, elo>>
        \/ Enter(t) /\ UNCHANGED <<search_vars, elo>>
        \/ InitStep(t) /\ UNCHANGED <<search_vars, elo>>
        \/ Store(t) /\ UNCHANGED <<search_vars, elo>>
        \/ Publish(t) /\ UNCHANGED <<search_vars, elo>>

OnceSpec == OnceInit /\ [][OnceNext]_vars

----------------------------------------------------------------------------
(* Two players rated over a series of games *)

\* the ratings two players are created with
StartRatings == {0, INITIAL_RATING, 1000, 1200, 4100}

EloInit ==
    /\ board = InitialPosition.board
    /\ turn = InitialPosition.turn
    /\ root = InitialPosition
    /\ move_list = <<>>
    /\ undo = <<>>
    /\ history = <<>>
    /\ perft_result = <<>>
    /\ OnceStart
    /\ \E self \in StartRatings, opponent \in StartRatings :
          elo = EloStart(with_rating(self), with_rating(opponent))

\* player1.update_both(&mut player2, result)
UpdateBoth(result) ==
    /\ Len(elo.calls) < MaxGames
    /\ LET updated == update_both(elo.self, elo.opponent, result)
       IN elo' = [elo EXCEPT !.self = updated.self, !.opponent = updated.opponent,
                             !.calls = Append(elo.calls, "update_both"),
                             !.previous = elo.opponent]

\* player1.update_one(player2, result); a new run of update_both calls
\* begins after it
UpdateOne(result) ==
    /\ Len(elo.calls) < MaxGames
    /\ LET updated == update_one(elo.self, elo.opponent, result)
       IN elo' = [elo EXCEPT !.self = updated.self, !.opponent = updated.opponent,
                             !.calls = Append(elo.calls, "update_one"),
                             !.previous = elo.opponent,
                             !.sum = updated.self + updated.opponent]

EloNext ==
    \/ \E result \in {Loss, Draw, Win} :
          UpdateBoth(result)
            /\ UNCHANGED <<search_vars, once_vars>>
    \/ \E result \in {Loss, Draw, Win} :
          UpdateOne(result)
            /\ UNCHANGED <<search_vars, once_vars>>

EloSpec == EloInit /\ [][EloNext]_vars

----------------------------------------------------------------------------
(* A game played from the standard starting position with the moves the   *)
(* generator returns                                                       *)

MaxPlies == 2

\* 1. e3 e6 2. Nf3 Nf6 3. Be2 Be7: both sides ready to castle king side
OpeningLine ==
    <<Move_new(make_square(4, 1), make_square(4, 2), QuietMove),
      Move_new(make_square(4, 6), make_square(4, 5), QuietMove),
      Move_new(G1, make_square(5, 2), QuietMove),
      Move_new(G8, make_square(5, 5), QuietMove),
      Move_new(F1, make_square(4, 1), QuietMove),
      Move_new(F8, make_square(4, 6), QuietMove)>>

\* the position after the moves of a line, each of them taken from the
\* list all_legal_moves_and_captures returns; the position is not
\* advanced past a move that is not in the list
RECURSIVE play(_, _, _)
play(pos, line, i) ==
    IF i > Len(line) THEN pos
    ELSE IF \E j \in 1 .. Len(all_legal_moves_and_captures(pos.turn, pos.board)) :
               all_legal_moves_and_captures(pos.turn, pos.board)[j] = line[i]
         THEN play(apply_move(pos, line[i]), line, i + 1)
         ELSE pos

GameInit ==
    /\ \E n \in {0, Len(OpeningLine)} :
          /\ root = play(InitialPosition, SubSeq(OpeningLine, 1, n), 1)
          /\ board = root.board
          /\ turn = root.turn
    /\ move_list = all_legal_moves_and_captures(turn, board)
    /\ undo = <<>>
    /\ history = <<>>
    /\ perft_result = <<>>
    /\ OnceStart
    /\ elo = EloStart(ELO_new, ELO_new)

\* one more move of the game, taken from the generated list
GameMove(mv) ==
    /\ Len(history) < MaxPlies
    /\ LET made == make_move_position(Position_new(board, turn), mv)
       IN /\ board' = made.position.board
          /\ turn' = made.position.turn
          /\ undo' = Append(undo, made.undo)
          /\ history' = Append(history, [position |-> Position_new(board, turn), mv |-> mv])
          /\ move_list' = all_legal_moves_and_captures(made.position.turn,
                                                       made.position.board)
    /\ UNCHANGED <<root, perft_result>>
    /\ UNCHANGED <<once_vars, elo>>

GameNext == \E i \in 1 .. Len(move_list) : GameMove(move_list[i])

GameSpec == GameInit /\ [][GameNext]_vars

----------------------------------------------------------------------------
(* The state machine: a search that makes and unmakes moves on one         *)
(* Position, and the perft driver                                          *)

position == Position_new(board, turn)

\* a double push handed to make_move_position by a caller that builds the
\* move itself: a pawn of the side to move on its initial rank with both
\* squares ahead empty, accepted by does_not_check on the caller's board
caller_double_pushes(b, t) ==
    LET white == t.active_color = White
        pawn == from_type_and_color(Pawn, t.active_color)
        ahead(s, n) == IF white THEN s + 8 * n ELSE s - 8 * n
        state == SearchState_new(b, t)
    IN {mv \in {Move_new(s, ahead(s, 2), DoublePush) :
                    s \in {x \in Squares : /\ b[x] = pawn
                                           /\ rank_of(x) = (IF white THEN 1 ELSE 6)
                                           /\ b[ahead(x, 1)] = Empty
                                           /\ b[ahead(x, 2)] = Empty}} :
            does_not_check(b, state, mv).result}

\* the moves a caller hands to make_move_position
make_inputs(b, t, list) ==
    {list[i] : i \in 1 .. Len(list)} \cup caller_double_pushes(b, t)

Init ==
    /\ \E r \in Roots :
        /\ board = r.board
        /\ turn = r.turn
        /\ root = r
    /\ move_list = all_legal_moves_and_captures(turn, board)
    /\ undo = <<>>
    /\ history = <<>>
    /\ perft_result = <<>>
    /\ OnceStart
    /\ elo = EloStart(ELO_new, ELO_new)

\* make_move_position on the searched Position; the generator then runs on
\* the new Position
MakeMove(mv) ==
    /\ perft_result = <<>>
    /\ Len(undo) < MaxDepth
    /\ LET made == make_move_position(position, mv)
       IN /\ board' = made.position.board
          /\ turn' = made.position.turn
          /\ undo' = Append(undo, made.undo)
          /\ history' = Append(history, [position |-> position, mv |-> mv])
          /\ move_list' = all_legal_moves_and_captures(made.position.turn,
                                                       made.position.board)
    /\ UNCHANGED <<root, perft_result>>
    /\ UNCHANGED <<once_vars, elo>>

\* unmake_move_position with the most recent undo record
UnmakeMove ==
    /\ perft_result = <<>>
    /\ undo # <<>>
    /\ LET restored == unmake_move_position(position, undo[Len(undo)])
       IN /\ board' = restored.board
          /\ turn' = restored.turn
          /\ move_list' = all_legal_moves_and_captures(restored.turn, restored.board)
    /\ undo' = SubSeq(undo, 1, Len(undo) - 1)
    /\ history' = SubSeq(history, 1, Len(history) - 1)
    /\ UNCHANGED <<root, perft_result>>
    /\ UNCHANGED <<once_vars, elo>>

\* perft on a parsed position: the searched root or the initial position
Perft(pos, depth) ==
    /\ perft_result = <<>>
    /\ undo = <<>>
    /\ perft_result' = <<[position |-> pos, depth |-> depth, nodes |-> perft(pos, depth)]>>
    /\ UNCHANGED <<board, turn, move_list, undo, history, root>>
    /\ UNCHANGED <<once_vars, elo>>

Next ==
    \/ \E mv \in make_inputs(board, turn, move_list) : MakeMove(mv)
    \/ UnmakeMove
    \/ \E pos \in {position, InitialPosition}, depth \in 0 .. MaxPerftDepth : Perft(pos, depth)

Spec == Init /\ [][Next]_vars

----------------------------------------------------------------------------
(* The rules of chess, stated on a board without the generator's tables *)

\* the squares strictly between two squares of one rank, file or diagonal
squares_between(a, c) ==
    LET df == file_of(c) - file_of(a)
        dr == rank_of(c) - rank_of(a)
        n == IF abs(df) > abs(dr) THEN abs(df) ELSE abs(dr)
    IN IF df = 0 \/ dr = 0 \/ abs(df) = abs(dr)
       THEN {make_square(file_of(a) + sign(df) * k, rank_of(a) + sign(dr) * k) :
                k \in 1 .. n - 1}
       ELSE {}

\* the piece on 'from' attacks 'sq'
piece_attacks(b, from, sq) ==
    LET piece == b[from]
        df == file_of(sq) - file_of(from)
        dr == rank_of(sq) - rank_of(from)
        clear == \A s \in squares_between(from, sq) : b[s] = Empty
    IN /\ from # sq
       /\ piece # Empty
       /\ CASE piece_type(piece) = Pawn ->
                   abs(df) = 1 /\ dr = (IF piece_color(piece) = White THEN 1 ELSE -1)
            [] piece_type(piece) = Knight -> {abs(df), abs(dr)} = {1, 2}
            [] piece_type(piece) = Bishop -> abs(df) = abs(dr) /\ clear
            [] piece_type(piece) = Rook -> (df = 0 \/ dr = 0) /\ clear
            [] piece_type(piece) = Queen ->
                   (df = 0 \/ dr = 0 \/ abs(df) = abs(dr)) /\ clear
            [] piece_type(piece) = King -> abs(df) <= 1 /\ abs(dr) <= 1
            [] OTHER -> FALSE

\* some piece of 'color' attacks 'sq'
square_attacked_by(b, sq, color) ==
    \E from \in Squares :
        b[from] # Empty /\ piece_color(b[from]) = color /\ piece_attacks(b, from, sq)

\* with mv applied exactly once, no king of 'color' is attacked
king_safe_after(b, color, mv) ==
    LET after == make_move(b, mv).board
    IN \A k \in find_piece(after, from_type_and_color(King, color)) :
          ~square_attacked_by(after, k, other_color(color))

\* the moves of a list, and the pseudo-legal moves of the searched position
moves_in(list) == {list[i] : i \in 1 .. Len(list)}

search_state == SearchState_new(board, turn)

pseudo_legal_moves ==
    LET emitted == candidates(board, search_state)
    IN {emitted[i].mv : i \in 1 .. Len(emitted)}

----------------------------------------------------------------------------
(* Claims *)

\* C1: for every move returned by all_legal_moves_and_captures, on the
\* board with that move applied exactly once the king of the side that
\* moved is not attacked by any opposing piece.
C1_LegalMovesLeaveKingSafe ==
    \A mv \in moves_in(move_list) : king_safe_after(board, turn.active_color, mv)

\* the side to move is in check, the generator produced candidates the
\* filter rejected, and moves were returned
C1_Witness ==
    /\ search_state.in_check
    /\ move_list # <<>>
    /\ \E mv \in pseudo_legal_moves : mv \notin moves_in(move_list)

\* C2: a generated pseudo-legal move is returned if and only if the king is
\* safe on the board with exactly that move applied; interposing moves and
\* moves of a pinned piece along its pin line are kept, and the
\* pinned-knight position yields exactly 2 moves and 0 captures.
C2_FilterKeepsExactlyTheSafeMoves ==
    /\ \A mv \in pseudo_legal_moves :
          (mv \in moves_in(move_list)) <=> king_safe_after(board, turn.active_color, mv)
    /\ position = PinnedKnightPosition =>
          /\ Len(move_list) = 2
          /\ \A mv \in moves_in(move_list) : ~is_capture(mv.kind)

\* C3: for every move of any kind, make_move_position followed by
\* unmake_move_position with the returned UndoPosition leaves the board
\* (all 64 squares) and the turn (active colour, castling rights,
\* en-passant target, halfmove clock, fullmove number) as they were.
C3_MakeUnmakeRoundTrip ==
    \A mv \in pseudo_legal_moves \cup caller_double_pushes(board, turn) :
        LET made == make_move_position(position, mv)
        IN unmake_move_position(made.position, made.undo) = position

\* an en-passant capture has been made, changed the position, and its
\* undo record leads back
C3_Witness ==
    /\ undo # <<>>
    /\ history[Len(history)].mv.kind = EnPassant
    /\ position # history[Len(history)].position
    /\ unmake_move_position(position, undo[Len(undo)]) = history[Len(history)].position

\* C4: when the undo records of a sequence of makes are unmade in
\* last-in-first-out order, each unmake_move_position restores the
\* Position to the state it had immediately before the matching make, and
\* once every make is unmade the Position equals the root position.
C4_LifoUnmakeRestores ==
    [][Len(undo') < Len(undo) =>
        /\ Position_new(board', turn') = history[Len(history)].position
        /\ undo' = <<>> => Position_new(board', turn') = root]_vars

\* two nested makes are outstanding and unmaking them newest first leads
\* through the position before the second make back to the root
C4_Witness ==
    /\ Len(undo) = 2
    /\ position # root
    /\ LET inner == unmake_move_position(position, undo[2])
       IN /\ inner = history[2].position
          /\ inner # root
          /\ unmake_move_position(inner, undo[1]) = root

\* C5: perft returns 1 at depth 0 for any position, and for the standard
\* starting position the number of leaf positions of legal play: 20 at
\* depth 1, 400 at depth 2 and 8902 at depth 3.
C5_PerftCounts ==
    \A i \in 1 .. Len(perft_result) :
        LET r == perft_result[i]
        IN /\ r.depth = 0 => r.nodes = 1
           /\ r.position = InitialPosition =>
                 /\ r.depth = 1 => r.nodes = 20
                 /\ r.depth = 2 => r.nodes = 400
                 /\ r.depth = 3 => r.nodes = 8902

\* C6: find_pawn_pushes emits a DoublePush for a pawn of the side to move
\* exactly when the pawn stands on its initial rank and both squares
\* directly ahead of it are empty; every DoublePush ends on rank 4 for
\* white (index 3) and rank 5 for black (index 4).
C6_DoublePushExactlyFromInitialRank ==
    LET white == turn.active_color = White
        pawn == from_type_and_color(Pawn, turn.active_color)
        ahead(s, n) == IF white THEN s + 8 * n ELSE s - 8 * n
        pushes == find_pawn_pushes(search_state)
        doubles == {mv \in {pushes[i].mv : i \in 1 .. Len(pushes)} : mv.kind = DoublePush}
        eligible == {s \in Squares : /\ board[s] = pawn
                                      /\ rank_of(s) = (IF white THEN 1 ELSE 6)
                                      /\ board[ahead(s, 1)] = Empty
                                      /\ board[ahead(s, 2)] = Empty}
    IN /\ doubles = {Move_new(s, ahead(s, 2), DoublePush) : s \in eligible}
       /\ \A mv \in doubles : rank_of(mv.to) = (IF white THEN 3 ELSE 4)

\* C7: a castling move is returned by all_legal_moves_and_captures only if
\* none of the king's origin square, the square it passes over and its
\* destination square is attacked by an opposing piece.
C7_CastlingSquaresUnattacked ==
    \A mv \in moves_in(move_list) :
        mv.kind \in {OO, OOO} =>
            LET transit == make_square((file_of(mv.from) + file_of(mv.to)) \div 2,
                                       rank_of(mv.from))
            IN \A sq \in {mv.from, transit, mv.to} :
                  ~square_attacked_by(board, sq, other_color(turn.active_color))

\* C8: find_castles emits a castling move only if every square strictly
\* between the king and that rook on the mover's own back rank is empty
\* (f and g for the king side; b, c and d for the queen side), and the
\* occupancy of a square of the other colour's back rank has no influence
\* on what it emits.
C8_CastlesNeedEmptyBackRankPath ==
    LET white == turn.active_color = White
        back == IF white THEN 0 ELSE 7
        other_back == IF white THEN 7 ELSE 0
        between(kind) == IF kind = OO
                         THEN {make_square(5, back), make_square(6, back)}
                         ELSE {make_square(1, back), make_square(2, back),
                               make_square(3, back)}
        emitted == find_castles(search_state)
        toggled(x) ==
            [search_state EXCEPT
                !.occupancy =
                    IF x \in Occupancy_all(search_state.occupancy)
                    THEN [ours |-> search_state.occupancy.ours \ {x},
                          theirs |-> search_state.occupancy.theirs \ {x}]
                    ELSE [ours |-> search_state.occupancy.ours,
                          theirs |-> search_state.occupancy.theirs \cup {x}]]
    IN /\ \A i \in 1 .. Len(emitted) :
            \A s \in between(emitted[i].mv.kind) : board[s] = Empty
       /\ \A x \in rank_set(other_back) : find_castles(toggled(x)) = emitted

rights_tied_to(mv) ==
    {right \in CastlingRights :
        \E sq \in {mv.from, mv.to} :
            \/ sq = E1 /\ right \in {"K", "Q"}
            \/ sq = H1 /\ right = "K"
            \/ sq = A1 /\ right = "Q"
            \/ sq = E8 /\ right \in {"k", "q"}
            \/ sq = H8 /\ right = "k"
            \/ sq = A8 /\ right = "q"}

\* C10: after a make the castling rights are the previous rights minus
\* those tied to E1, H1, A1, E8, H8 or A8 occurring as origin or as
\* destination of the move; along a sequence of makes the rights only
\* shrink.
C10_CastlingRightsAfterMake ==
    /\ \A mv \in pseudo_legal_moves \cup caller_double_pushes(board, turn) :
          make_move_position(position, mv).position.turn.castling
              = turn.castling \ rights_tied_to(mv)
    /\ \A i \in 1 .. Len(history) :
          (IF i < Len(history) THEN history[i + 1].position.turn.castling
                               ELSE turn.castling)
              \subseteq history[i].position.turn.castling

\* a rook has been captured on its home square a8 by the rook from a1:
\* the make removed the right of either colour
C10_Witness ==
    /\ history # <<>>
    /\ history[Len(history)].mv = Move_new(A1, A8, Capture)
    /\ history[Len(history)].position.turn.castling = {"Q", "q"}
    /\ turn.castling = {}

\* C11: after apply_move_turn the active colour is the opposite of the
\* mover's colour; the fullmove number is the old value plus one exactly
\* when the mover was black and unchanged when the mover was white; the
\* halfmove clock is 0 if the moved piece is a pawn or the move kind is a
\* capture, and the old value plus one otherwise.
C11_TurnAfterApplyMoveTurn ==
    \A mv \in pseudo_legal_moves \cup caller_double_pushes(board, turn) :
        LET piece == board[mv.from]
            mover == piece_color(piece)
            after == apply_move_turn(turn, MoveWithPieces(mv, piece, Empty))
        IN /\ after.active_color = other_color(mover)
           /\ after.fullmove = (IF mover = Black THEN turn.fullmove + 1 ELSE turn.fullmove)
           /\ after.halfmove = (IF piece_type(piece) = Pawn \/ is_capture(mv.kind)
                                THEN 0 ELSE turn.halfmove + 1)

\* C12: in every Turn produced by parse_position and in every Turn reached
\* from it by make_move_position, the halfmove clock is within 0..254 and
\* the fullmove number is at least 1, and the increments of Turn::tick stay
\* inside the 8-bit and the 16-bit counter.
C12_ClocksStayInRange ==
    /\ turn.halfmove \in 0 .. 254
    /\ turn.fullmove >= 1
    /\ \A mv \in pseudo_legal_moves :
          /\ turn.halfmove + 1 < HalfmoveModulus
          /\ other_color(turn.active_color) = White => turn.fullmove + 1 < FullmoveModulus

\* C13: the list returned by all_legal_moves_and_captures contains no two
\* moves with the same (from, to, promotion piece) triple, so its length
\* equals the number of distinct triples emitted.
C13_NoDuplicateMoves ==
    LET triple(mv) == <<mv.from, mv.to, promotion_piece(mv)>>
    IN /\ \A i, j \in 1 .. Len(move_list) :
             triple(move_list[i]) = triple(move_list[j]) => i = j
       /\ Cardinality({triple(move_list[i]) : i \in 1 .. Len(move_list)}) = Len(move_list)

\* the list holds two moves with the same origin and destination that
\* differ in the promotion piece only, next to moves that do not promote
C13_Witness ==
    /\ \E i, j \in 1 .. Len(move_list) :
          /\ move_list[i].from = move_list[j].from
          /\ move_list[i].to = move_list[j].to
          /\ promotion_piece(move_list[i]) = Queen
          /\ promotion_piece(move_list[j]) = Knight
    /\ \E i \in 1 .. Len(move_list) : promotion_piece(move_list[i]) = "none"

\* the occupancies a lookup is compared on in a state at most
\* MaxLookupDepth moves from its root: the board's, its complement, and the
\* board's with the squares of the four edges all occupied or all empty
edge_squares == rank_set(0) \cup rank_set(7) \cup file_set(0) \cup file_set(7)

lookup_occupancies ==
    LET all == Occupancy_all(Occupancy_from_board(board, turn.active_color))
    IN IF Len(undo) <= MaxLookupDepth
       THEN {all, Squares \ all, all \cup edge_squares, all \ edge_squares}
       ELSE {}

\* C14: for every square, slider kind and occupancy, magic::targets equals
\* the classical ray walk compute_slider_targets on the full occupancy
\* (each ray extends up to and including the first occupied square).
C14_MagicLookupIsRayWalk ==
    \A occupancy \in lookup_occupancies :
        \A square \in Squares, is_bishop \in BOOLEAN :
            targets(square, is_bishop, occupancy)
                = compute_slider_targets(square, is_bishop, occupancy)

\* a lookup whose occupancy has a piece on an edge square outside the mask
\* that the ray reaches, and one whose occupancy has a piece behind the
\* first blocker of a ray
C14_Witness ==
    LET all == Occupancy_all(Occupancy_from_board(board, turn.active_color))
    IN /\ \E square \in Squares :
             (targets(square, FALSE, all) \cap all) \ magic_mask[FALSE][square] # {}
       /\ \E square \in Squares :
             \E near, far \in all \cap magic_mask[FALSE][square] :
                /\ near \in targets(square, FALSE, all)
                /\ near \in make_path(square, far)
                /\ far \notin targets(square, FALSE, all)

\* C15: with any number of threads making their first call concurrently,
\* the initializer's result is installed at most once, every caller (first
\* or later) reads the same completely built table and never a partially
\* filled one, and no later call modifies the table.
C15_TableInstalledOnce ==
    \A cell \in Cells :
        /\ installs[cell] <= 1
        /\ once_state[cell] = "complete" => once_value[cell] = built_table(cell)
        /\ \A t \in Threads :
              (thread[t].cell = cell /\ thread[t].pc = "idle" /\ thread[t].calls > 0)
                  => thread[t].seen = built_table(cell)

\* two threads have both returned from get_or_init on the same cell with
\* the built table, which was installed once; one of them has returned
\* from a later call as well
C15_Witness ==
    \E t, u \in Threads :
        /\ t # u
        /\ thread[t].cell = thread[u].cell
        /\ thread[t].pc = "idle" /\ thread[u].pc = "idle"
        /\ thread[t].calls = MaxCalls /\ thread[u].calls = 1
        /\ thread[t].seen = built_table(thread[t].cell)
        /\ thread[u].seen = built_table(thread[t].cell)
        /\ installs[thread[t].cell] = 1

\* C16: for every board, square and side to move, is_attacked_square is
\* true exactly when some piece of the opposing side has a capture pattern
\* that includes the square and, for sliders, no piece stands strictly
\* between that piece and the square; the attackers-table implementation
\* of the moves crate and is_attacked of the moves_gen crate return the
\* same answer.
C16_IsAttackedSquareMatchesRule ==
    \A side \in Colors, square \in (IF Len(undo) <= MaxLookupDepth THEN Squares ELSE {}) :
        LET occupancy == Occupancy_from_board(board, side)
        IN /\ is_attacked_square(board, square, occupancy)
                = square_attacked_by(board, square, other_color(side))
           /\ is_attacked_square(board, square, occupancy)
                = is_attacked(board, square, occupancy)

\* the king of the side to move is attacked, and a slider of the other
\* side has a square in its capture pattern that a piece in between
\* shields
C16_Witness ==
    LET occupancy == Occupancy_from_board(board, turn.active_color)
    IN /\ \E king \in find_piece(board, from_type_and_color(King, turn.active_color)) :
             is_attacked_square(board, king, occupancy)
       /\ \E from \in occupancy.theirs, square \in Squares :
             /\ board[from] \in SLIDERS
             /\ square \in possible_captures(board[from], from)
             /\ ~clear_path(Occupancy_all(occupancy), from, square)
             /\ ~is_attacked_square(board, square, occupancy)

\* per square s, the squares f from which the capture pattern of some piece
\* includes s
capture_origins ==
    Tabulate([s \in Squares |->
        {f \in Squares : \E piece \in Pieces \ {Empty} :
                            s \in possible_captures(piece, f)}])

\* C17: for every square s, MovesTable::attackers(s) is exactly the set of
\* squares f such that for some piece (any type, either colour) the
\* precomputed capture pattern of that piece on f includes s.
\* The candidates is_attacked_square draws from the entry in a state are
\* then the squares of the other side with that property.
C17_AttackersAreCaptureOrigins ==
    LET theirs == Occupancy_from_board(board, turn.active_color).theirs
    IN \A s \in Squares :
          /\ attackers(s) = capture_origins[s]
          /\ theirs \cap attackers(s) = theirs \cap capture_origins[s]

\* the entry of E4 holds the knight origins D2 and F6, the line origins
\* A8, H1, A4, H4, E1 and E8 and the pawn origins D3 and F5, and the entry
\* of the king of the side to move holds a square the other side occupies
C17_Witness ==
    /\ {make_square(3, 1), make_square(5, 5), A8, H1, make_square(0, 3),
        make_square(7, 3), E1, E8, make_square(3, 2), make_square(5, 4)}
           \subseteq attackers(make_square(4, 3))
    /\ \E king \in find_piece(board, from_type_and_color(King, turn.active_color)) :
          attackers(king)
              \cap Occupancy_from_board(board, turn.active_color).theirs # {}

\* two squares share a rank, a file or a diagonal
co_linear(a, c) ==
    \/ rank_of(a) = rank_of(c)
    \/ file_of(a) = file_of(c)
    \/ abs(rank_of(a) - rank_of(c)) = abs(file_of(a) - file_of(c))

\* whether make_path is the open interval, for every pair of squares
make_path_is_open_interval ==
    \A from, to \in Squares :
        make_path(from, to) =
            (IF co_linear(from, to)
             THEN {s \in Squares \ {from, to} :
                      /\ co_linear(from, s) /\ co_linear(s, to)
                      /\ sign(rank_of(s) - rank_of(from)) = sign(rank_of(to) - rank_of(s))
                      /\ sign(file_of(s) - file_of(from)) = sign(file_of(to) - file_of(s))
                      /\ sign(rank_of(s) - rank_of(from)) = sign(rank_of(to) - rank_of(from))
                      /\ sign(file_of(s) - file_of(from)) = sign(file_of(to) - file_of(from))}
             ELSE {})

\* C18: for every pair of squares, SquareSet::make_path(from, to) is
\* exactly the set of squares strictly between them when they share a rank,
\* file or diagonal (excluding both endpoints, hence empty for adjacent or
\* equal squares), and the empty set when they are not co-linear.  The
\* paths clear_path reads from a piece of the board are such intervals.
C18_MakePathIsOpenInterval ==
    /\ make_path_is_open_interval
    /\ \A from \in Occupancy_all(Occupancy_from_board(board, turn.active_color)),
          to \in Squares :
          /\ from \notin path(from, to) /\ to \notin path(from, to)
          /\ path(from, to) = squares_between(from, to)
          /\ path(from, to) = path(to, from)

\* a piece of the board has a path of six squares to a far corner or edge,
\* an empty path to an adjacent square and an empty path to a square that
\* is a knight's move away
C18_Witness ==
    \E from \in Occupancy_all(Occupancy_from_board(board, turn.active_color)) :
        /\ \E to \in Squares : Cardinality(make_path(from, to)) = 6
        /\ \E to \in Squares :
              /\ abs(rank_of(to) - rank_of(from)) = 1
              /\ abs(file_of(to) - file_of(from)) = 1
              /\ make_path(from, to) = {}
        /\ \E to \in Squares :
              /\ abs(rank_of(to) - rank_of(from)) = 2
              /\ abs(file_of(to) - file_of(from)) = 1
              /\ make_path(from, to) = {}
        /\ make_path(from, from) = {}

\* the vector indices from_position can select: one per (piece, square),
\* the side-to-move vector, one per castling right, one per en-passant file
piece_vectors == {<<piece, square>> : piece \in Pieces \ {Empty}, square \in Squares}

\* whether those indices are pairwise distinct and inside the vector table
hash_indices_distinct ==
    LET board_indices == {x[1] * NUM_SQUARES + x[2] : x \in piece_vectors}
        extra_indices == {BLACK_TO_MOVE} \cup {castling_vector(r) : r \in CastlingRights}
                             \cup {EN_PASSANT_A + file : file \in 0 .. 7}
    IN /\ Cardinality(board_indices) = Cardinality(piece_vectors)
       /\ Cardinality(extra_indices) = 1 + 4 + 8
       /\ board_indices \cap extra_indices = {}
       /\ \A idx \in board_indices \cup extra_indices : idx >= 0 /\ idx < NUM_HASH_VECTORS

\* C20: Hash::from_position(p) is the XOR of exactly these vectors: one per
\* occupied square selected by (piece, square), the black-to-move vector
\* iff black is to move, one distinct vector per asserted castling right,
\* and the vector of the en-passant target's file iff a target is set; the
\* indices are pairwise distinct and inside the vector table, and the
\* halfmove and fullmove counters do not influence the result, so equal
\* positions give equal hashes and two positions differing only in side to
\* move, in one castling right, or in the en-passant file XOR a different
\* set of vectors.
C20_FromPositionVectors ==
    LET occupied == {sq \in Squares : board[sq] # Empty}
        with_turn(t) == from_position(Position_new(board, t))
        target_rank == IF turn.active_color = White THEN 5 ELSE 2
    IN /\ hash_indices_distinct
       /\ from_position(position) =
              {board[sq] * NUM_SQUARES + sq : sq \in occupied}
              \cup (IF turn.active_color = Black THEN {BLACK_TO_MOVE} ELSE {})
              \cup {castling_vector(r) : r \in turn.castling}
              \cup (IF turn.en_passant # NO_EN_PASSANT_TARGET
                    THEN {EN_PASSANT_A + file_of(turn.en_passant)} ELSE {})
       /\ Cardinality(from_position(position)) =
              Cardinality(occupied) + (IF turn.active_color = Black THEN 1 ELSE 0)
              + Cardinality(turn.castling)
              + (IF turn.en_passant # NO_EN_PASSANT_TARGET THEN 1 ELSE 0)
       /\ \A clocks \in {<<0, 1>>, <<1, 0>>, <<255, 65535>>} :
              with_turn([turn EXCEPT !.halfmove = clocks[1], !.fullmove = clocks[2]])
                  = from_position(position)
       /\ with_turn([turn EXCEPT !.active_color = other_color(@)]) # from_position(position)
       /\ \A r \in CastlingRights :
              with_turn([turn EXCEPT !.castling =
                            IF r \in @ THEN @ \ {r} ELSE @ \cup {r}])
                  # from_position(position)
       /\ Cardinality({with_turn([turn EXCEPT !.en_passant = target]) :
                          target \in {NO_EN_PASSANT_TARGET}
                                         \cup {make_square(file, target_rank) : file \in 0 .. 7}})
              = 9

\* black is to move after a double push, so that the hash of the position
\* holds the black-to-move vector, the vector of a castling right and the
\* vector of the en-passant file next to the piece vectors
C20_Witness ==
    /\ turn.active_color = Black
    /\ turn.castling # {}
    /\ turn.en_passant # NO_EN_PASSANT_TARGET
    /\ BLACK_TO_MOVE \in from_position(position)
    /\ EN_PASSANT_A + file_of(turn.en_passant) \in from_position(position)
    /\ \E r \in turn.castling : castling_vector(r) \in from_position(position)
    /\ \E sq \in Squares : board[sq] # Empty /\ board[sq] * NUM_SQUARES + sq \in from_position(position)


fen_turns ==
    {turn} \cup
    (IF Len(undo) <= MaxLookupDepth
     THEN {[turn EXCEPT !.castling = castling] : castling \in SUBSET CastlingRights}
          \cup {[turn EXCEPT !.en_passant = make_square(file, rank)] :
                    file \in 0 .. 7, rank \in {2, 5}}
          \cup {[turn EXCEPT !.active_color = other_color(turn.active_color)]}
          \cup {[turn EXCEPT !.halfmove = clocks[1], !.fullmove = clocks[2]] :
                    clocks \in {<<0, 0>>, <<9, 1>>, <<10, 99>>, <<99, 100>>,
                                <<100, 9999>>, <<255, 65535>>}}
     ELSE {})

\* the boards a position is printed and parsed with: the state's own and,
\* at a root, the empty board and a board with a piece on every square
fen_boards ==
    {board} \cup
    (IF undo = <<>>
     THEN {EmptyBoard,
           [s \in Squares |-> IF (s % 13) = Empty THEN WP ELSE s % 13]}
     ELSE {})

\* C21: for every Position p (any board, either active colour, any castling
\* mask, en-passant target absent or on rank 3 or 6, any halfmove and
\* fullmove value the Turn can hold), parse_position(position_to_string(p))
\* succeeds and returns a Position equal to p in the board and in all five
\* turn fields.
C21_ParsePrintRoundTrip ==
    \A b \in fen_boards, t \in fen_turns :
        parse_position(position_to_string(Position_new(b, t))) = Ok(Position_new(b, t))

\* a position with a castling right and an en-passant target whose text
\* has a rank with pieces around a run of empty squares and an empty rank,
\* and which parses back to the position
C21_Witness ==
    /\ turn.castling # {}
    /\ turn.en_passant # NO_EN_PASSANT_TARGET
    /\ \E rank \in 0 .. 7 :
          \E left, right \in 0 .. 7 :
              /\ left + 1 < right
              /\ board[make_square(left, rank)] # Empty
              /\ board[make_square(right, rank)] # Empty
              /\ board[make_square(left + 1, rank)] = Empty
    /\ \E rank \in 0 .. 7 : \A file \in 0 .. 7 : board[make_square(file, rank)] = Empty
    /\ Len(position_to_string(position)) > 20
    /\ parse_position(position_to_string(position)) = Ok(position)

\* the en-passant fields a record is parsed with
en_passant_fields ==
    {<<"-">>, <<"e", "3">>, <<"a", "6">>, <<"h", "3">>, <<"e", "4">>, <<"d", "5">>,
     <<"a", "1">>, <<"h", "8">>, <<"e">>, <<"i", "3">>, <<"e", "9">>, <<"e", "0">>,
     <<"e", "3", "3">>, <<"3", "e">>}

\* C22: parse_position returns a ParseError and no Position whenever the
\* en-passant field of the record is neither '-' nor a square with file
\* a..h and rank 3 or 6; it never returns a Position whose en-passant
\* target lies on another rank.
C22_EnPassantFieldChecked ==
    \A field \in en_passant_fields :
        LET parts == split_whitespace(position_to_string(position))
            parsed(fen) ==
                /\ (fen.ok =>
                        \/ field = <<"-">>
                        \/ /\ Len(field) = 2
                           /\ \E f \in 1 .. 8 : file_chars[f] = field[1]
                           /\ field[2] \in {"3", "6"})
                /\ (fen.ok /\ fen.value.turn.en_passant # NO_EN_PASSANT_TARGET
                        => rank_of(fen.value.turn.en_passant) \in {2, 5})
        IN parsed(parse_position(parts[1] \o <<" ">> \o parts[2] \o <<" ">> \o parts[3]
                                     \o <<" ">> \o field \o <<" ">> \o parts[5]
                                     \o <<" ">> \o parts[6]))


\* the board with every piece's colour swapped and the ranks mirrored
colour_mirror(b) ==
    [s \in Squares |->
        LET piece == b[make_square(file_of(s), 7 - rank_of(s))]
        IN IF piece = Empty THEN Empty
           ELSE from_type_and_color(piece_type(piece), other_color(piece_color(piece)))]

\* 7k/8/8/8/8/QRRBBNN1/QQQQQQQQ/q6K: a black queen
\* on a1 and, on the squares after it, the white material of a game in
\* which every white pawn has promoted to a queen
HeavyMaterialBoard ==
    parse_piece_placement(<<
        <<".", ".", ".", ".", ".", ".", ".", "k">>,
        EmptyRank, EmptyRank, EmptyRank, EmptyRank,
        <<"Q", "R", "R", "B", "B", "N", "N", ".">>,
        <<"Q", "Q", "Q", "Q", "Q", "Q", "Q", "Q">>,
        <<"q", ".", ".", ".", ".", ".", ".", "K">> >>)

\* the boards evaluate_board is called with: the state's, the starting
\* position's and, at a root, the board of heavy material
eval_boards ==
    {board, InitialPosition.board} \cup (IF undo = <<>> THEN {HeavyMaterialBoard} ELSE {})

\* C23: evaluate_board returns 0 centipawns for the standard starting
\* position and, for every board b, evaluate_board(b) is the exact
\* negation of evaluate_board of b with every piece's colour swapped and
\* the ranks mirrored.
C23_EvaluateColourSymmetric ==
    /\ evaluate_board(InitialPosition.board) = Returned(0)
    /\ \A b \in eval_boards :
          LET negated(score, mirrored) ==
                  /\ ~score.panicked
                  /\ ~mirrored.panicked
                  /\ mirrored.cp = -score.cp
          IN negated(evaluate_board(b), evaluate_board(colour_mirror(b)))


\* C24: for any two ratings and any sequence of ELO::update_both calls
\* between them with any results (win, draw, loss), the sum of the two
\* ratings after every call equals the sum before the first call;
\* ELO::update_one changes only the caller's rating.
C24_UpdateBothKeepsSum ==
    /\ elo.self + elo.opponent = elo.sum
    /\ (elo.calls # <<>> /\ elo.calls[Len(elo.calls)] = "update_one")
           => elo.opponent = elo.previous

\* after an update_one, two update_both calls in a row have moved points
\* between the players and taken one of them below MIN_RATING
C24_Witness ==
    /\ elo.calls = <<"update_one", "update_both", "update_both">>
    /\ elo.self < MIN_RATING
    /\ elo.opponent # elo.previous
    /\ elo.self + elo.opponent = elo.sum

\* C25: while for_all_legal_moves_and_captures enumerates a position, the
\* working board equals the input board before each candidate is tried and
\* again after it has been made, tested and unmade, and the board handed
\* to the sink for an accepted move is the input board with that move
\* applied exactly once, whatever the kind of the move.
C25_WorkingBoardRestoredAroundCandidates ==
    LET state == SearchState_new(board, turn)
        tried(emitted) ==
            LET step == do_move(board, state, emitted)
            IN /\ step.board = board
               /\ step.accepted => step.sink_board = make_move(board, emitted.mv).board
        emitted_all == candidates(board, state)
    IN \A i \in 1 .. Len(emitted_all) : tried(emitted_all[i])

\* the values of depth_left around the promotion threshold
quiescence_depths == PROMOTION_MIN_DEPTH_LEFT - 1 .. PROMOTION_MIN_DEPTH_LEFT + 1

\* C26: all_legal_quiescent_moves returns with the caller's board equal,
\* on all 64 squares, to the board passed in, for every position and every
\* depth_left.
C26_QuiescentMovesKeepCallersBoard ==
    \A depth_left \in quiescence_depths :
        \A square \in Squares :
            all_legal_quiescent_moves(turn, board, depth_left).board[square] = board[square]

\* the promotion moves make_move can be handed on a board: a pawn of
\* either colour one step from its last rank, pushed onto an empty square
\* or capturing an enemy piece diagonally, with each of the four pieces
promotion_inputs(b) ==
    LET ahead(from) == IF b[from] = WP THEN from + 8 ELSE from - 8
        beside(from) ==
            {to \in {ahead(from) - 1, ahead(from) + 1} \cap Squares :
                /\ rank_of(to) = rank_of(ahead(from))
                /\ b[to] # Empty
                /\ piece_color(b[to]) # piece_color(b[from])}
        pawns == {from \in Squares : \/ b[from] = WP /\ rank_of(from) = 6
                                     \/ b[from] = BP /\ rank_of(from) = 1}
    IN UNION {{Move_new(from, ahead(from), kind) :
                  kind \in IF b[ahead(from)] = Empty
                           THEN KnightPromotion .. QueenPromotion ELSE {}}
              \cup {Move_new(from, to, kind) :
                       to \in beside(from),
                       kind \in KnightPromotionCapture .. QueenPromotionCapture} :
              from \in pawns}

\* what the claim says of one promotion move made on a board
promoted_as_encoded(b, mv, made_board, captured) ==
    /\ made_board[mv.from] = Empty
    /\ made_board[mv.to] =
           from_type_and_color(<<Knight, Bishop, Rook, Queen>>[(mv.kind % 4) + 1],
                               piece_color(b[mv.from]))
    /\ piece_type(made_board[mv.to]) = promotion_piece(mv)
    /\ captured = b[mv.to]
    /\ ~is_capture(mv.kind) => captured = Empty

\* C27: after make_move of a promotion move of a pawn of colour c, with or
\* without capture, 'from' is Empty and 'to' holds the piece of colour c
\* whose type is encoded in the low two bits of the kind (0 knight,
\* 1 bishop, 2 rook, 3 queen), the type whose letter the move's text form
\* prints; the returned BoardChange records the piece that stood on 'to',
\* Empty unless the move captures.
C27_PromotionPlacesEncodedPiece ==
    /\ \A mv \in promotion_inputs(board) :
           promoted_as_encoded(board, mv, make_move(board, mv).board,
                               make_move(board, mv).change.captured)
    /\ \A i \in 1 .. Len(move_list) :
           is_promotion(move_list[i].kind) => move_list[i] \in promotion_inputs(board)
    /\ (history # <<>> /\ is_promotion(history[Len(history)].mv.kind)) =>
           promoted_as_encoded(history[Len(history)].position.board,
                               history[Len(history)].mv, board,
                               undo[Len(undo)].board.captured)

C27_Witness ==
    /\ Len(history) = 2
    /\ history[1].mv.kind = KnightPromotionCapture
    /\ history[2].mv.kind = RookPromotion
    /\ board[history[1].mv.to] = WN
    /\ board[history[2].mv.to] = BR
    /\ undo[1].board.captured = BN
    /\ undo[2].board.captured = Empty

\* the en passant moves make_move can be handed on a board: a pawn of
\* either colour on its fifth rank beside an enemy pawn, the square behind
\* that pawn being empty
en_passant_inputs(b) ==
    LET target(from, beside) == IF b[from] = WP THEN beside + 8 ELSE beside - 8
        neighbours(from) ==
            {beside \in {from - 1, from + 1} \cap Squares :
                /\ rank_of(beside) = rank_of(from)
                /\ b[beside] = (IF b[from] = WP THEN BP ELSE WP)
                /\ b[target(from, beside)] = Empty}
        pawns == {from \in Squares : \/ b[from] = WP /\ rank_of(from) = 4
                                     \/ b[from] = BP /\ rank_of(from) = 3}
    IN UNION {{Move_new(from, target(from, beside), EnPassant) :
                  beside \in neighbours(from)} : from \in pawns}

\* what the claim says of one en passant move made on a board
en_passant_as_described(b, mv, made_board, captured) ==
    LET captured_square == make_square(file_of(mv.to), rank_of(mv.from))
    IN /\ made_board[mv.to] = b[mv.from]
       /\ made_board[mv.from] = Empty
       /\ made_board[captured_square] = Empty
       /\ \A square \in Squares \ {mv.from, mv.to, captured_square} :
              made_board[square] = b[square]
       /\ captured = b[captured_square]
       /\ captured = from_type_and_color(Pawn, other_color(piece_color(b[mv.from])))

\* C28: after make_move of an EnPassant move by either colour, 'to' holds
\* the capturing pawn, 'from' is Empty, the square on to's file and from's
\* rank is Empty, every other square is unchanged, and the returned
\* BoardChange.captured is the enemy pawn that stood on that square.
C28_EnPassantRemovesPassedPawn ==
    /\ \A mv \in en_passant_inputs(board) :
           en_passant_as_described(board, mv, make_move(board, mv).board,
                                   make_move(board, mv).change.captured)
    /\ \A i \in 1 .. Len(move_list) :
           move_list[i].kind = EnPassant => move_list[i] \in en_passant_inputs(board)
    /\ (history # <<>> /\ history[Len(history)].mv.kind = EnPassant) =>
           en_passant_as_described(history[Len(history)].position.board,
                                   history[Len(history)].mv, board,
                                   undo[Len(undo)].board.captured)

C28_Witness ==
    /\ history # <<>>
    /\ history[Len(history)].mv.kind = EnPassant
    /\ board[history[Len(history)].mv.to] = BP
    /\ undo[Len(undo)].board.captured = WP
    /\ board[make_square(file_of(history[Len(history)].mv.to),
                         rank_of(history[Len(history)].mv.from))] = Empty

\* the home squares a castling right speaks of
castling_home(right) ==
    CASE right = "K" -> [king |-> WK, king_square |-> E1, rook |-> WR, rook_square |-> H1]
      [] right = "Q" -> [king |-> WK, king_square |-> E1, rook |-> WR, rook_square |-> A1]
      [] right = "k" -> [king |-> BK, king_square |-> E8, rook |-> BR, rook_square |-> H8]
      [] right = "q" -> [king |-> BK, king_square |-> E8, rook |-> BR, rook_square |-> A8]

\* C29: in every position reached from the standard starting position by
\* moves all_legal_moves_and_captures returns, an asserted castling right
\* has the king of its colour on E1 / E8 and the rook of its colour on the
\* corresponding home square, so every generated castling move relocates
\* an actual king and rook.
C29_CastlingRightsHaveKingAndRookHome ==
    /\ \A right \in turn.castling :
           /\ board[castling_home(right).king_square] = castling_home(right).king
           /\ board[castling_home(right).rook_square] = castling_home(right).rook
    /\ \A i \in 1 .. Len(move_list) :
           move_list[i].kind \in {OO, OOO} =>
               /\ board[move_list[i].from] = from_type_and_color(King, turn.active_color)
               /\ board[compound_move(move_list[i]).second.from] =
                      from_type_and_color(Rook, turn.active_color)

C29_Witness ==
    /\ Len(history) = 2
    /\ history[1].mv.kind = OO
    /\ history[2].mv.from = H8
    /\ board[G1] = WK
    /\ board[F1] = WR
    /\ turn.castling = {"q"}
    /\ history[1].position.turn.castling = {"K", "Q", "k", "q"}

\* C30: for every position, count_legal_moves_and_captures(board,
\* SearchState::new(board, turn)) equals the length of
\* all_legal_moves_and_captures(turn, board): the counting enumeration and
\* the listing enumeration accept exactly the same moves.
C30_CountEqualsListLength ==
    count_legal_moves_and_captures(board, SearchState_new(board, turn))
        = Len(all_legal_moves_and_captures(turn, board))

====
